---- MODULE Spec2Model ----
(***************************************************************************)
(* Verification model of the security-script generator:                    *)
(*   - DialogueManager (app/chatbot/dialogue.py): the per-session dialogue  *)
(*     state machine, its answer bookkeeping and its expiry sweep;          *)
(*   - ChatbotEngine (app/chatbot/engine.py): message processing and the    *)
(*     retrieval / generation pipeline, with the external collaborators     *)
(*     (vector search, LLM call) as nondeterministic outcomes.              *)
(* Questions are represented by their ids, Python's None by the string      *)
(* "None", timestamps by the value of a logical clock.                      *)
(***************************************************************************)
EXTENDS Integers, Sequences, FiniteSets, TLC

VARIABLES
    dialogue_states,   \* DialogueManager.dialogue_states: session id -> dialogue state
    now,               \* the clock read by datetime.now()
    advances,          \* history, per session: the get_next_question calls counted in
                       \* SpecAdvance, the stage the last one started in, what it returned
    active_sessions,   \* ChatbotEngine.active_sessions: session id -> session
    inflight,          \* the process_message calls in progress: slot -> frame of locals
    last_call,         \* history: the engine call that completed last and how it ended
    threads,           \* SpecSweep: what each thread is executing, with its locals
    last_op            \* history: the DialogueManager call made last (SpecRecord, SpecExpire)

dvars == <<dialogue_states, now, advances, threads, last_op>>

evars == <<active_sessions, inflight, last_call>>

vars == <<dialogue_states, now, advances, active_sessions, inflight, last_call, threads,
         last_op>>

(***************************************************************************)
(* Bounds of the model.                                                    *)
(***************************************************************************)
MaxAsked == 4      \* longest asked_questions list explored
MaxCalls == 11     \* get_next_question calls explored per dialogue

SessionIds == {"s1"}

\* Answer texts explored: comma-free strings, the empty string included.
Values == {"", "Phishing"}

\* Question ids under which answers are recorded.
AnswerIds == {"facility_type", "target_audience", "duration", "focus_threats",
              "clarify_facility"}

RevisionRequests == {"bitte kuerzen"}

None == "None"

(***************************************************************************)
(* Python helpers.                                                         *)
(***************************************************************************)
Range(seq) == {seq[i] : i \in 1..Len(seq)}

Min(S) == CHOOSE x \in S : \A y \in S : x <= y

\* bool(text): the empty string is falsy.
Truthy(v) == v # ""

\* [item.strip() for item in text.split(",")] on a comma-free text without
\* surrounding blanks: the one-element list holding the text ("" gives [""]).
SplitStrip(v) == <<v>>

\* "word in text" (substring) on the texts explored: a text holds only itself.
Contains(text, word) == text = word

\* dict.get(key, default)
Get(map, key, default) == IF key \in DOMAIN map THEN map[key] ELSE default

\* map[key] = value
Put(map, key, value) ==
    [k \in DOMAIN map \cup {key} |-> IF k = key THEN value ELSE map[k]]

(***************************************************************************)
(* Question catalogs (config.py, questions.py).                            *)
(***************************************************************************)
STRATEGIC_QUESTIONS ==
    <<"facility_type", "target_audience", "duration", "focus_threats",
      "skill_level", "regulatory_requirements", "custom_scenarios">>

get_strategic_questions == STRATEGIC_QUESTIONS

required_fields == <<"facility_type", "target_audience", "duration", "focus_threats">>

CondSeq(cond, seq) == IF cond THEN seq ELSE <<>>

get_contextual_questions(facility_type, target_audience, focus_threats) ==
    LET aud == Range(target_audience)
        thr == Range(focus_threats)
        facility ==
            IF Contains(facility_type, "Krankenhaus") \/ Contains(facility_type, "Klinik")
            THEN <<"hospital_specific", "patient_data_systems">>
            ELSE IF Contains(facility_type, "Forschung") \/ Contains(facility_type, "Labor")
            THEN <<"research_data", "international_collaboration">>
            ELSE IF Contains(facility_type, "Praxis") \/ Contains(facility_type, "Arzt")
            THEN <<"practice_size", "electronic_prescription">>
            ELSE <<>>
    IN  facility
        \o CondSeq("Ärzte" \in aud, <<"doctor_workflow">>)
        \o CondSeq("Pflegepersonal" \in aud, <<"nurse_devices">>)
        \o CondSeq("Verwaltungsmitarbeiter" \in aud, <<"admin_access">>)
        \o CondSeq("IT-Personal" \in aud, <<"it_infrastructure">>)
        \o CondSeq("Phishing" \in thr, <<"phishing_incidents">>)
        \o CondSeq("Malware" \in thr, <<"removable_media">>)
        \o CondSeq("Passwort-Sicherheit" \in thr, <<"password_policy">>)
        \o CondSeq("Datendiebstahl" \in thr, <<"data_classification">>)
        \o CondSeq("Mobile Geräte" \in thr, <<"byod_policy">>)
        \o <<"previous_training", "specific_examples">>

ClarifyId(field) ==
    CASE field = "facility_type" -> "clarify_facility"
      [] field = "target_audience" -> "clarify_audience"
      [] field = "duration" -> "clarify_duration"
      [] field = "focus_threats" -> "clarify_threats"
      [] field = "skill_level" -> "clarify_skill"
      [] OTHER -> None

get_clarification_questions(missing_fields) ==
    LET known == SelectSeq(missing_fields, LAMBDA f : ClarifyId(f) # None)
    IN  [i \in 1..Len(known) |-> ClarifyId(known[i])]

\* question_id.startswith("clarify_")
StartsWithClarify(q) ==
    q \in {"clarify_facility", "clarify_audience", "clarify_duration",
           "clarify_threats", "clarify_skill"}

(***************************************************************************)
(* DialogueManager: operations on one dialogue state d.                    *)
(***************************************************************************)
NewDialogueState(t) ==
    [current_stage |-> "introduction",
     next_question_index |-> 0,
     contextual_questions |-> <<>>,
     asked_questions |-> <<>>,
     responses |-> <<>>,
     missing_information |-> <<>>,
     last_updated |-> t,
     needs_revision |-> FALSE,
     revision_request |-> None]

\* The first question of the list whose id is not in asked_questions, or None.
FirstNotAsked(questions, asked) ==
    LET open == {i \in 1..Len(questions) : questions[i] \notin Range(asked)}
    IN  IF open = {} THEN None ELSE questions[Min(open)]

_update_contextual_questions(d) ==
    LET facility_type == Get(d.responses, "facility_type", "")
        target_audience == SplitStrip(Get(d.responses, "target_audience", ""))
        focus_threats == SplitStrip(Get(d.responses, "focus_threats", ""))
    IN  [d EXCEPT !.contextual_questions =
            get_contextual_questions(facility_type, target_audience, focus_threats)]

\* process_response appending the question id to asked_questions on every call.
ResponseAlwaysAppends(d, question_id, response, t) ==
    [d EXCEPT !.responses = Put(@, question_id, response),
              !.asked_questions = Append(@, question_id),
              !.last_updated = t]

\* process_response without the timestamp update.
ResponseKeepsTimestamp(d, question_id, response, t) ==
    LET d1 == [d EXCEPT !.responses = Put(@, question_id, response)]
    IN  IF question_id \notin Range(d1.asked_questions)
        THEN [d1 EXCEPT !.asked_questions = Append(@, question_id)]
        ELSE d1

\* process_response taking an empty response as the withdrawal of the answer.
ResponseDropsEmpty(d, question_id, response, t) ==
    LET d1 == [d EXCEPT !.responses =
                  IF response = ""
                  THEN [k \in DOMAIN @ \ {question_id} |-> @[k]]
                  ELSE Put(@, question_id, response)]
        d2 == IF question_id \notin Range(d1.asked_questions)
              THEN [d1 EXCEPT !.asked_questions = Append(@, question_id)]
              ELSE d1
    IN  [d2 EXCEPT !.last_updated = t]

process_response(d, question_id, response, t) ==
    LET d1 == [d EXCEPT !.responses = Put(@, question_id, response)]
        d2 == IF question_id \notin Range(d1.asked_questions)
              THEN [d1 EXCEPT !.asked_questions = Append(@, question_id)]
              ELSE d1
        d3 == [d2 EXCEPT !.last_updated = t]
    IN  IF StartsWithClarify(question_id)
           \/ Len(d3.asked_questions) >= Len(STRATEGIC_QUESTIONS)
        THEN _update_contextual_questions(d3)
        ELSE d3

\* _get_next_strategic_question with the bound test off by one.
StrategicQuestionOverrun(d) ==
    LET next_index == d.next_question_index
    IN  IF next_index > Len(STRATEGIC_QUESTIONS)
        THEN [state |-> d, result |-> None]
        ELSE [state |-> [d EXCEPT !.next_question_index = next_index + 1],
              result |-> IF next_index < Len(STRATEGIC_QUESTIONS)
                         THEN STRATEGIC_QUESTIONS[next_index + 1] ELSE None]

\* _get_next_strategic_question advancing the index by two.
StrategicQuestionSkip(d) ==
    LET next_index == d.next_question_index
    IN  IF next_index >= Len(STRATEGIC_QUESTIONS)
        THEN [state |-> d, result |-> None]
        ELSE [state |-> [d EXCEPT !.next_question_index = next_index + 2],
              result |-> STRATEGIC_QUESTIONS[next_index + 1]]

\* _get_next_strategic_question repeating the question returned last until an
\* answer is recorded under its id.
StrategicQuestionRepeats(d) ==
    LET next_index == d.next_question_index
    IN  IF next_index >= Len(STRATEGIC_QUESTIONS)
        THEN [state |-> d, result |-> None]
        ELSE IF next_index > 0 /\ STRATEGIC_QUESTIONS[next_index] \notin DOMAIN d.responses
        THEN [state |-> d, result |-> STRATEGIC_QUESTIONS[next_index]]
        ELSE [state |-> [d EXCEPT !.next_question_index = next_index + 1],
              result |-> STRATEGIC_QUESTIONS[next_index + 1]]

\* Returns [state, result]: the dialogue state after the call and the question.
_get_next_strategic_question(d) ==
    LET next_index == d.next_question_index
    IN  IF next_index >= Len(STRATEGIC_QUESTIONS)
        THEN [state |-> d, result |-> None]
        ELSE [state |-> [d EXCEPT !.next_question_index = next_index + 1],
              result |-> STRATEGIC_QUESTIONS[next_index + 1]]

_get_next_contextual_question(d) ==
    FirstNotAsked(d.contextual_questions, d.asked_questions)

_get_next_clarification_question(d) ==
    FirstNotAsked(get_clarification_questions(d.missing_information), d.asked_questions)

_check_for_missing_information(d) ==
    [d EXCEPT !.missing_information =
        SelectSeq(required_fields,
                  LAMBDA f : f \notin DOMAIN d.responses \/ ~Truthy(d.responses[f]))]

\* The stage a dialogue moves to from summary (dialogue.py 220-228).
AfterSummaryRestart(d) == IF d.needs_revision THEN "revision" ELSE "strategic_questions"

AfterSummary(d) == IF d.needs_revision THEN "revision" ELSE "complete"

\* The fall-through of get_next_question (complete, revision, any other stage).
NoMoreQuestionsRestart(d) ==
    [state |-> [d EXCEPT !.current_stage = "introduction"], result |-> None]

NoMoreQuestions(d) == [state |-> d, result |-> None]

get_next_question(d) ==
    LET stage == d.current_stage
    IN  IF stage = "introduction"
        THEN _get_next_strategic_question([d EXCEPT !.current_stage = "strategic_questions"])
        ELSE IF stage = "strategic_questions"
        THEN LET nq == _get_next_strategic_question(d)
                 dm == _check_for_missing_information(nq.state)
             IN  IF nq.result # None
                 THEN nq
                 ELSE IF dm.missing_information # <<>>
                 THEN LET dc == [dm EXCEPT !.current_stage = "clarification"]
                      IN  [state |-> dc, result |-> _get_next_clarification_question(dc)]
                 ELSE LET dx == [dm EXCEPT !.current_stage = "contextual_questions"]
                      IN  [state |-> dx, result |-> _get_next_contextual_question(dx)]
        ELSE IF stage = "clarification"
        THEN LET q == _get_next_clarification_question(d)
                 dm == _check_for_missing_information(d)
             IN  IF q # None
                 THEN [state |-> d, result |-> q]
                 ELSE IF dm.missing_information # <<>>
                 THEN [state |-> dm, result |-> _get_next_clarification_question(dm)]
                 ELSE LET dx == [dm EXCEPT !.current_stage = "contextual_questions"]
                      IN  [state |-> dx, result |-> _get_next_contextual_question(dx)]
        ELSE IF stage = "contextual_questions"
        THEN LET q == _get_next_contextual_question(d)
             IN  IF q # None
                 THEN [state |-> d, result |-> q]
                 ELSE [state |-> [d EXCEPT !.current_stage = "summary"], result |-> None]
        ELSE IF stage = "summary"
        THEN [state |-> [d EXCEPT !.current_stage = AfterSummary(d)], result |-> None]
        ELSE NoMoreQuestions(d)

\* flag_for_revision recording the request and leaving the stage as it is.
FlagOnlyMarks(d, revision_request) ==
    [d EXCEPT !.needs_revision = TRUE,
              !.revision_request = revision_request]

flag_for_revision(d, revision_request) ==
    [d EXCEPT !.needs_revision = TRUE,
              !.revision_request = revision_request,
              !.current_stage = "revision"]

(***************************************************************************)
(* DialogueManager: the calls, each run to completion.                     *)
(***************************************************************************)
Known(s) == s \in DOMAIN dialogue_states

NoAdvance == [calls |-> 0, from |-> None, result |-> None]

InitializeDialogue(s) ==
    /\ dialogue_states' = Put(dialogue_states, s, NewDialogueState(now))
    /\ advances' = Put(advances, s, NoAdvance)
    /\ UNCHANGED <<now, threads, evars>>

\* process_response(session_id, question_id, response); an unknown session id
\* is initialized and the response dropped (dialogue.py 93-94).
ProcessResponse(s, q, v) ==
    /\ IF ~Known(s)
       THEN /\ dialogue_states' = Put(dialogue_states, s, NewDialogueState(now))
            /\ advances' = Put(advances, s, NoAdvance)
       ELSE /\ \/ q \in Range(dialogue_states[s].asked_questions)
               \/ Len(dialogue_states[s].asked_questions) < MaxAsked
            /\ dialogue_states' =
                  [dialogue_states EXCEPT ![s] = process_response(@, q, v, now)]
            /\ UNCHANGED advances
    /\ UNCHANGED <<now, threads, evars>>

\* get_next_question(session_id): what it does to dialogue_states.
GetNextQuestion(s) ==
    /\ IF ~Known(s)
       THEN UNCHANGED dialogue_states
       ELSE dialogue_states' =
               [dialogue_states EXCEPT ![s] = get_next_question(@).state]
    /\ UNCHANGED <<now, threads, evars>>

\* History: one more get_next_question call on s.
CountAdvance(s) ==
    IF Known(s)
    THEN /\ advances[s].calls < MaxCalls
         /\ advances' = [advances EXCEPT ![s] =
                [calls |-> @.calls + 1,
                 from |-> dialogue_states[s].current_stage,
                 result |-> get_next_question(dialogue_states[s]).result]]
    ELSE UNCHANGED advances

FlagForRevision(s, r) ==
    /\ IF Known(s)
       THEN dialogue_states' = [dialogue_states EXCEPT ![s] = flag_for_revision(@, r)]
       ELSE UNCHANGED dialogue_states
    /\ UNCHANGED <<now, advances, threads, evars>>

\* get_dialogue_summary listing the answers in the order they were given.
SummaryInAnswerOrder(d) ==
    LET catalog == get_strategic_questions \o d.contextual_questions
        answered == SelectSeq(d.asked_questions, LAMBDA q : q \in Range(catalog))
    IN  [stage |-> d.current_stage,
         responses |-> [i \in 1..Len(answered) |-> <<answered[i], d.responses[answered[i]]>>],
         missing_information |-> d.missing_information,
         questions_asked |-> Len(d.asked_questions),
         last_updated |-> d.last_updated]

\* get_dialogue_summary (dialogue.py 306-333) on an existing dialogue: the answers
\* of the strategic and then of the contextual questions, keyed by the question.
get_dialogue_summary(d) ==
    LET catalog == get_strategic_questions \o d.contextual_questions
        answered == SelectSeq(catalog, LAMBDA q : q \in DOMAIN d.responses)
    IN  [stage |-> d.current_stage,
         responses |-> [i \in 1..Len(answered) |-> <<answered[i], d.responses[answered[i]]>>],
         missing_information |-> d.missing_information,
         questions_asked |-> Len(d.asked_questions),
         last_updated |-> d.last_updated]

\* get_dialogue_summary(session_id) reads the dialogue and writes nothing.
GetDialogueSummary(s) ==
    UNCHANGED <<dialogue_states, now, advances, threads, evars>>

\* The threads of SpecSweep and the frame of a thread that runs nothing.
Sweepers == {"sweep1", "sweep2"}

Requests == {"request"}

Threads == Sweepers \cup Requests

Idle ==
    [op |-> None, pc |-> "idle", session_id |-> None, question_id |-> None,
     response |-> None, current_time |-> 0, used |-> 0, seen |-> {},
     sessions_to_remove |-> <<>>, error |-> None]

\* No DialogueManager call made yet.
NoOp ==
    [op |-> None, session_id |-> None, question_id |-> None, response |-> None,
     known |-> FALSE, refreshed |-> FALSE,
     repeated |-> FALSE, prev_response |-> None,
     max_age |-> 0, removed |-> {}, result |-> 0]

NoCall ==
    [op |-> None, session_id |-> None, known |-> FALSE, outcome |-> None,
     reply |-> [kind |-> None, detail |-> <<>>],
     attempt |-> [retrieval |-> None, prompt |-> None, llm |-> None, check |-> None],
     llm_calls |-> 0]

Init ==
    /\ dialogue_states = <<>>
    /\ now = 0
    /\ advances = <<>>
    /\ active_sessions = <<>>
    /\ inflight = <<>>
    /\ last_call = NoCall
    /\ threads = [t \in Threads |-> Idle]
    /\ last_op = NoOp

Next ==
    \/ \E s \in SessionIds : InitializeDialogue(s) /\ UNCHANGED last_op
    \/ \E s \in SessionIds, q \in AnswerIds, v \in Values :
          ProcessResponse(s, q, v) /\ UNCHANGED last_op
    \/ \E s \in SessionIds : GetNextQuestion(s) /\ UNCHANGED <<advances, last_op>>
    \/ \E s \in SessionIds, r \in RevisionRequests :
          FlagForRevision(s, r) /\ UNCHANGED last_op

Spec == Init /\ [][Next]_vars

(***************************************************************************)
(* SpecAdvance: the dialogue with its get_next_question calls counted, the  *)
(* answers recorded under the ids of the required fields.                   *)
(***************************************************************************)
RequiredIds == Range(required_fields)

NextAdvance ==
    \/ \E s \in SessionIds : InitializeDialogue(s) /\ UNCHANGED last_op
    \/ \E s \in SessionIds, q \in RequiredIds, v \in Values :
          ProcessResponse(s, q, v) /\ UNCHANGED last_op
    \/ \E s \in SessionIds : GetNextQuestion(s) /\ CountAdvance(s) /\ UNCHANGED last_op
    \/ \E s \in SessionIds, r \in RevisionRequests :
          FlagForRevision(s, r) /\ UNCHANGED last_op

SpecAdvance == Init /\ [][NextAdvance]_vars

(***************************************************************************)
(* Properties of the dialogue state machine.                               *)
(***************************************************************************)
NumStrategic == Len(STRATEGIC_QUESTIONS)

Stage(s) == dialogue_states[s].current_stage

Index(s) == dialogue_states[s].next_question_index

\* The forward sequence of the specification, with the stages' names in the code.
ClaimedEdges ==
    {<<"introduction", "strategic_questions">>,
     <<"strategic_questions", "contextual_questions">>,
     <<"contextual_questions", "summary">>,
     <<"summary", "complete">>}

\* The forward sequence with the detour through clarification.
ForwardEdges ==
    ClaimedEdges \cup {<<"strategic_questions", "clarification">>,
                       <<"clarification", "contextual_questions">>}

NoneMissing(d) ==
    \A f \in RequiredIds : f \in DOMAIN d.responses /\ Truthy(d.responses[f])

\* A get_next_question step on s keeps the stage or moves it along an edge.
AdvanceAlong(edges) ==
    \A s \in SessionIds :
        Known(s) =>
            \/ Stage(s)' = Stage(s)
            \/ ~GetNextQuestion(s)
            \/ <<Stage(s), Stage(s)'>> \in edges

IndexInRange ==
    \A s \in DOMAIN dialogue_states : Index(s) \in 0..NumStrategic

C10_CompleteIsFinal ==
    [][\A s \in SessionIds :
         (/\ Known(s)
          /\ Stage(s) = "complete"
          /\ GetNextQuestion(s)
          /\ CountAdvance(s))
         => /\ dialogue_states' = dialogue_states
            /\ advances'[s].result = None]_vars

C10_Witness ==
    \E s \in DOMAIN dialogue_states :
        /\ Stage(s) = "complete"
        /\ advances[s].from = "complete"

Responses(s) == dialogue_states[s].responses

\* A process_response, get_next_question, flag_for_revision or
\* get_dialogue_summary call on the existing session s.
SessionCall(s) ==
    /\ Known(s)
    /\ \/ \E q \in AnswerIds, v \in Values : ProcessResponse(s, q, v)
       \/ GetNextQuestion(s)
       \/ \E r \in RevisionRequests : FlagForRevision(s, r)
       \/ GetDialogueSummary(s)

\* C11: a process_response, get_next_question, flag_for_revision or
\* get_dialogue_summary call on an existing session keeps the session and every
\* question id of its answer mapping (the value may change).
C11_AnswersKept ==
    [][\A s \in DOMAIN dialogue_states :
         \/ /\ Known(s)'
            /\ DOMAIN Responses(s) \subseteq DOMAIN Responses(s)'
         \/ ~SessionCall(s)]_vars

C11_Witness ==
    \E s \in DOMAIN dialogue_states :
        /\ Stage(s) = "revision"
        /\ Index(s) = NumStrategic
        /\ "facility_type" \in DOMAIN Responses(s)
        /\ Responses(s)["facility_type"] = ""

(***************************************************************************)
(* ChatbotEngine (app/chatbot/engine.py).  A reply is [kind, detail]: the   *)
(* kind names the fixed text, the detail holds what the text is built from  *)
(* (pairs of strings).  A text such as a generated script is a sequence of  *)
(* lines <<mark, text>>, the mark being the heading marker of the line.     *)
(***************************************************************************)
MaxTurns == 11     \* user messages explored per engine session

EngineIds == {"e1"}        \* the ids generate_session_id hands out
UnknownIds == {"e0"}       \* an id no session was created under
Messages == {"ja", "nein"} \* one-word user messages
SectionKeys == {"threat_awareness"}
CustomizationRequests == {"kuerzer"}

Reply(kind) == [kind |-> kind, detail |-> <<>>]

ReplyWith(kind, detail) == [kind |-> kind, detail |-> detail]

\* generated_script: None, or a string given by its lines.
NoScript == [kind |-> None, lines |-> <<>>]

Str(lines) == [kind |-> "str", lines |-> lines]

\* The section pattern of engine.py 513/559: the f-string renders "#{{{1,3}}}" as
\* "#{(1, 3)}", which as a regular expression matches the literal text "#{1, 3}",
\* so a section starts at a line "#{1, 3}" + title.
SectionMark == "#{1, 3}"

\* What the model's LLM answers to the generation prompt: a markdown document.
ScriptText == << <<"##", "Threat Awareness / Bedrohungsbewusstsein">>, <<"", "Inhalt">> >>

\* A document whose headings are written with the text the section pattern
\* matches, the section of threat_awareness occurring twice.
MarkedText ==
    << <<"", "Einleitung">>,
       <<SectionMark, "Threat Awareness / Bedrohungsbewusstsein">>, <<"", "Inhalt">>,
       <<SectionMark, "Abschluss">>, <<"", "Ende">>,
       <<SectionMark, "Threat Awareness / Bedrohungsbewusstsein">>, <<"", "Anhang">> >>

\* ollama_client.py 112-115: the text returned in place of a script on a non-200 status.
StatusText == << <<"", "Ollama returned status code 500: Internal Server Error">> >>

\* engine.py 388-394: the warning block built from the reported hallucinations.
WarningText == << <<"##", "Hinweis zu möglichen Halluzinationen">>, <<"", "- unbelegt">> >>

\* The words of the regular expressions of engine.py 220/264, 272, 456/473, 460/477,
\* 481 and 485; a one-word message matches \b(w1|w2|...)\b iff it is one of the words.
ConfirmWords == {"ja", "yes", "ok", "okay", "generieren", "erstellen", "generiere",
                 "beginne", "beginnen"}

ChangeWords == {"nein", "no", "ändern", "änderung", "anpassen", "korrigieren"}

ModifyWords == {"anpassen", "ändern", "modifizieren"}

ShowWords == {"sehen", "anzeigen", "zeigen"}

ExportWords == {"speichern", "exportieren", "download"}

SectionWords == {"section", "abschnitt", "teil"}

\* engine.py 274-285: the first catalog question one of whose words occurs in the
\* message as a substring ("In" of the first question occurs in "nein"; no word of
\* any question occurs in "ja" or "no").
MentionedQuestion(message) ==
    CASE message = "nein" -> "facility_type"
      [] message = "ändern" -> "skill_level"
      [] OTHER -> None

\* TEMPLATE_STRUCTURE[key]["title"] (config.py 49-107).
SectionTitle(section_key) ==
    CASE section_key = "threat_awareness" -> "Threat Awareness / Bedrohungsbewusstsein"
      [] OTHER -> section_key

\* The outcomes of the external calls of one generation attempt.  A step after a
\* raising step is not run ("None").
RetrievalOutcomes == {"ok", "query_error", "raises"}
PromptOutcomes == {"ok", "raises"}
LlmOutcomes == {"text", "marked", "empty", "status", "raises"}

\* What the check call of _check_for_hallucinations (engine.py 430-445) yields:
\*   "clean", "flagged": an object of the schema, without or with reported items;
\*   "no_json": a text without braces or with invalid JSON between them;
\*   "call_fails": ollama_client.generate raised;
\*   "bad_schema": a JSON object without has_hallucinations, or reporting items
\*     without text or reason.
CheckOutcomes == {"clean", "flagged", "no_json", "call_fails", "bad_schema"}

WellFormedAttempt(a) ==
    /\ a.retrieval = "raises" => a.prompt = None
    /\ a.retrieval # "raises" => a.prompt \in PromptOutcomes
    /\ a.prompt \in {None, "raises"} => a.llm = None
    /\ a.prompt = "ok" => a.llm \in LlmOutcomes
    /\ a.llm \in {None, "raises"} => a.check = None
    /\ a.llm \in {"text", "marked", "empty", "status"} => a.check \in CheckOutcomes

Attempts ==
    {a \in [retrieval : RetrievalOutcomes,
            prompt : PromptOutcomes \cup {None},
            llm : LlmOutcomes \cup {None},
            check : CheckOutcomes \cup {None}] : WellFormedAttempt(a)}

NoAttempt == [retrieval |-> None, prompt |-> None, llm |-> None, check |-> None]

NoContext == [session_context |-> <<>>, retrieved_context |-> None]

\* create_session (engine.py 35-43); the keys set later start absent.
NewSession(t) ==
    [created_at |-> t,
     strategic_responses |-> <<>>,
     current_question_index |-> 0,
     stage |-> "introduction",
     messages |-> <<>>,
     generated_script |-> NoScript,
     clarification_type |-> "",
     missing_field |-> "",
     generation_context |-> NoContext,
     hallucination_warnings |-> <<>>]

\* _add_message_to_session (engine.py 85-95) on the session itself.
_add_message_to_session(sess, role, content, t) ==
    [sess EXCEPT !.messages =
        Append(@, [role |-> role, content |-> content, timestamp |-> t])]

\* The answers of the catalog's questions, in catalog order.
CatalogAnswers(strategic_responses) ==
    LET ids == SelectSeq(get_strategic_questions,
                         LAMBDA q : q \in DOMAIN strategic_responses)
    IN  [i \in 1..Len(ids) |-> <<ids[i], strategic_responses[ids[i]]>>]

\* A handler returns [session, reply, raised, llm_calls].
Returned(sess, reply) ==
    [session |-> sess, reply |-> reply, raised |-> FALSE, llm_calls |-> 0]

Raised(sess, error, calls) ==
    [session |-> sess, reply |-> Reply(error), raised |-> TRUE, llm_calls |-> calls]

_generate_review_summary(sess) ==
    Returned([sess EXCEPT !.stage = "review"],
             ReplyWith("review_summary", CatalogAnswers(sess.strategic_responses)))

\* A question step that opens the review after the first answer.
NextQuestionReviewsEarly(sess) ==
    IF sess.current_question_index >= 1
    THEN _generate_review_summary([sess EXCEPT !.stage = "review"])
    ELSE Raised(sess, "AttributeError", 0)

\* A question step that opens the review one answer late.
NextQuestionReviewsLate(sess) ==
    IF sess.current_question_index > Len(get_strategic_questions)
    THEN _generate_review_summary([sess EXCEPT !.stage = "review"])
    ELSE Raised(sess, "AttributeError", 0)

\* _get_next_strategic_question (engine.py 156-182).  Line 174 calls
\* prompt_builder.build_strategic_question_prompt, a method PromptBuilder
\* (llm/prompt_builder.py 12-447) does not define: the call raises AttributeError
\* before the question text is formatted and returned.
engine_get_next_strategic_question(sess) ==
    LET question_index == sess.current_question_index
    IN  IF question_index >= Len(get_strategic_questions)
        THEN _generate_review_summary([sess EXCEPT !.stage = "review"])
        ELSE Raised(sess, "AttributeError", 0)

\* engine.py 190-201, with question_index read before (line 187).
_process_strategic_question_response(sess, question_index, message) ==
    IF question_index >= Len(get_strategic_questions)
    THEN Raised(sess, "IndexError", 0)
    ELSE LET question_id == get_strategic_questions[question_index + 1]
         IN  engine_get_next_strategic_question(
                 [sess EXCEPT !.strategic_responses = Put(@, question_id, message),
                              !.current_question_index = question_index + 1])

\* get_generated_script (engine.py 523-533) on an existing session.
get_generated_script(sess) ==
    IF sess.generated_script.lines = <<>>
    THEN Reply("no_script_yet")
    ELSE ReplyWith("script", sess.generated_script.lines \o sess.hallucination_warnings)


\* ollama_client.generate (ollama_client.py 49-129) for the generation prompt:
\* the text handed back when the call does not raise.
GeneratedText(llm) ==
    CASE llm = "text" -> Str(ScriptText)
      [] llm = "marked" -> Str(MarkedText)
      [] llm = "empty" -> Str(<<>>)        \* result.get("response", "") on a body without it
      [] llm = "status" -> Str(StatusText)  \* the error message returned as the text

\* The except clause of _generate_script (engine.py 407-414): its first statement
\* evaluates traceback.format_exc(), a name engine.py never imports (lines 6-16),
\* so the clause ends in a NameError before the stage is set and the notice returned.
GenerateScriptExcept(sess, calls) == Raised(sess, "NameError", calls)

\* _generate_script (engine.py 302-414) under the outcomes a of the external calls.
\*   retrieval "query_error": collection.query raised, VectorStore.search caught it
\*     and returned [] (vector_store.py 150-187);
\*   retrieval "raises": the embedding or the collection lookup raised, outside
\*     the try of VectorStore.search (vector_store.py 137-148);
\*   llm "raises": requests.post or response.json() raised; the except clause of
\*     generate (ollama_client.py 126-129) then raises NameError, traceback not
\*     being imported there either.
_generate_script(sess, a) ==
    LET session_context ==
            [q \in DOMAIN sess.strategic_responses \cap Range(get_strategic_questions)
                |-> sess.strategic_responses[q]]
        generating == [sess EXCEPT !.stage = "generating"]
        stored == [generating EXCEPT
                      !.generated_script = GeneratedText(a.llm),
                      !.generation_context =
                          [session_context |-> session_context,
                           retrieved_context |->
                               IF a.retrieval = "ok" THEN "documents" ELSE "empty"],
                      !.stage = "followup"]
    IN  IF a.retrieval = "raises" \/ a.prompt = "raises"
        THEN GenerateScriptExcept(generating, 0)
        ELSE IF a.llm = "raises"
        THEN GenerateScriptExcept(generating, 1)
        ELSE IF a.check = "bad_schema"
        THEN GenerateScriptExcept(stored, 2)
        ELSE [session |-> IF a.check = "flagged"
                          THEN [stored EXCEPT !.hallucination_warnings = WarningText]
                          ELSE stored,
              reply |-> Reply("script_generated"), raised |-> FALSE, llm_calls |-> 2]

_process_clarification_response(sess, message, a) ==
    IF sess.clarification_type = "missing_info"
    THEN _generate_review_summary(
            [sess EXCEPT !.strategic_responses =
                            IF sess.missing_field # ""
                            THEN Put(@, sess.missing_field, message) ELSE @,
                         !.stage = "review"])
    ELSE IF sess.clarification_type = "confirm_generation"
    THEN IF message \in ConfirmWords
         THEN _generate_script([sess EXCEPT !.stage = "script_generation"], a)
         ELSE Returned([sess EXCEPT !.stage = "review"], Reply("declined"))
    ELSE _generate_review_summary([sess EXCEPT !.stage = "review"])

_process_review_response(sess, message) ==
    IF message \in ConfirmWords
    THEN Returned([sess EXCEPT !.stage = "clarification",
                               !.clarification_type = "confirm_generation"],
                  Reply("confirm_generation"))
    ELSE IF message \in ChangeWords
    THEN IF MentionedQuestion(message) # None
         THEN Returned([sess EXCEPT !.stage = "clarification",
                                    !.clarification_type = "missing_info",
                                    !.missing_field = MentionedQuestion(message)],
                       ReplyWith("enter_update", << <<"id", MentionedQuestion(message)>> >>))
         ELSE Returned(sess, Reply("what_to_change"))
    ELSE Returned([sess EXCEPT !.strategic_responses = Put(@, "additional_info", message),
                               !.stage = "clarification",
                               !.clarification_type = "confirm_generation"],
                  Reply("thanks_additional_info"))

_process_script_generation_request(sess, message, a) ==
    IF sess.generated_script.lines = <<>>
    THEN _generate_script(sess, a)
    ELSE IF message \in ModifyWords
    THEN Returned(sess, Reply("which_part"))
    ELSE Returned(sess, get_generated_script(sess))

\* A follow-up handler that takes the session back to the review.
FollowupReopens(sess, message) ==
    IF message \in ShowWords THEN Returned(sess, get_generated_script(sess))
    ELSE Returned([sess EXCEPT !.stage = "review"], Reply("how_can_i_help"))

\* engine.py 468-501; a one-word message that is a section word names no section,
\* so the loop of lines 488-494 finds none.
_process_followup_request(sess, message) ==
    IF message \in ModifyWords THEN Returned(sess, Reply("which_part"))
    ELSE IF message \in ShowWords THEN Returned(sess, get_generated_script(sess))
    ELSE IF message \in ExportWords THEN Returned(sess, Reply("export_ready"))
    ELSE IF message \in SectionWords THEN Returned(sess, Reply("which_section"))
    ELSE Returned(sess, Reply("how_can_i_help"))

\* A stage dispatch whose last branch puts the session back into review.
HandleStageResets(sess, stage, message, a) ==
    CASE stage = "introduction" ->
            engine_get_next_strategic_question([sess EXCEPT !.stage = "strategic_questions"])
      [] stage = "clarification" -> _process_clarification_response(sess, message, a)
      [] stage = "review" -> _process_review_response(sess, message)
      [] stage = "script_generation" -> _process_script_generation_request(sess, message, a)
      [] stage = "followup" -> _process_followup_request(sess, message)
      [] OTHER -> Returned([sess EXCEPT !.stage = "review"], Reply("unexpected_stage"))

\* The stage dispatch of process_message (engine.py 121-149) for the stages whose
\* handler runs in one piece; stage is the value read at line 118.
HandleStage(sess, stage, message, a) ==
    CASE stage = "introduction" ->
            engine_get_next_strategic_question([sess EXCEPT !.stage = "strategic_questions"])
      [] stage = "clarification" -> _process_clarification_response(sess, message, a)
      [] stage = "review" -> _process_review_response(sess, message)
      [] stage = "script_generation" -> _process_script_generation_request(sess, message, a)
      [] stage = "followup" -> _process_followup_request(sess, message)
      [] OTHER -> Returned(sess, Reply("unexpected_stage"))

\* Whether the handler of the stage reaches _generate_script.
Generates(sess, stage, message) ==
    \/ /\ stage = "clarification"
       /\ sess.clarification_type = "confirm_generation"
       /\ message \in ConfirmWords
    \/ /\ stage = "script_generation"
       /\ sess.generated_script.lines = <<>>

SectionStart(lines, title) ==
    {i \in 1..Len(lines) : lines[i] = <<SectionMark, title>>}

\* The end of the section starting at line i: before the next mark, or the end.
SectionEnd(lines, i) ==
    LET later == {j \in (i + 1)..Len(lines) : lines[j][1] = SectionMark}
    IN  IF later = {} THEN Len(lines) ELSE Min(later) - 1

\* The lines of the sections that start with the title: what the pattern matches.
InSection(lines, title, j) ==
    \E i \in SectionStart(lines, title) : i <= j /\ j <= SectionEnd(lines, i)

RECURSIVE Flatten(_)
Flatten(parts) ==
    IF parts = <<>> THEN <<>> ELSE Head(parts) \o Flatten(Tail(parts))

\* re.sub(section_pattern, customized_section, generated_script) (engine.py
\* 593-597), called without a count: every match of the pattern is replaced.
ReplaceMatches(lines, title, replacement) ==
    Flatten([j \in 1..Len(lines) |->
                IF j \in SectionStart(lines, title) THEN replacement
                ELSE IF InSection(lines, title, j) THEN <<>>
                ELSE <<lines[j]>>])

\* customize_script_section (engine.py 547-606) on an existing session.  The
\* retrieval of lines 569-570 runs outside the try; the LLM call runs inside it,
\* and a status other than 200 comes back as the text of the section.
customize_script_section(sess, section_key, customization_request, retrieval, llm) ==
    LET lines == sess.generated_script.lines
        title == SectionTitle(section_key)
        starts == SectionStart(lines, title)
    IN  IF lines = <<>> THEN Returned(sess, Reply("no_script_to_customize"))
        ELSE IF starts = {} THEN Returned(sess, Reply("section_not_found"))
        ELSE IF retrieval = "raises" THEN Raised(sess, "RetrievalError", 0)
        ELSE IF llm = "raises"
        THEN [session |-> sess, reply |-> Reply("customization_failed"),
              raised |-> FALSE, llm_calls |-> 1]
        ELSE [session |-> [sess EXCEPT !.generated_script =
                              Str(ReplaceMatches(lines, title, GeneratedText(llm).lines))],
              reply |-> Reply("section_customized"),
              raised |-> FALSE, llm_calls |-> 1]

\* The sections export_script (main.py 246-265) reads from the document: a line
\* starting with "## " opens a section, the lines up to the next such line are
\* its content; the last section is kept only with content.
ExportHeaders(lines) == {i \in 1..Len(lines) : lines[i][1] = "##"}

ExportContent(lines, i) ==
    LET later == {j \in ExportHeaders(lines) : j > i}
    IN  SubSeq(lines, i + 1, IF later = {} THEN Len(lines) ELSE Min(later) - 1)

ExportSections(lines) ==
    LET saved == {i \in ExportHeaders(lines) :
                     \/ \E j \in ExportHeaders(lines) : j > i
                     \/ ExportContent(lines, i) # <<>>}
        last(t) == CHOOSE i \in saved :
                      /\ lines[i][2] = t
                      /\ \A j \in saved : lines[j][2] = t => j <= i
    IN  [t \in {lines[i][2] : i \in saved} |-> ExportContent(lines, last(t))]

ExportFormats == {"markdown", "json", "pdf"}

\* export_script (main.py 210-288) for an existing session: the file written and
\* returned, or the HTTP error raised.
export_script(sess, format) ==
    LET generated_script == sess.generated_script
    IN  IF generated_script.lines = <<>>
        THEN [outcome |-> "raised", reply |-> Reply("HTTP 400")]
        ELSE IF format = "markdown"
        THEN [outcome |-> "returned",
              reply |-> ReplyWith("file_markdown", generated_script.lines)]
        ELSE IF format = "json"
        THEN [outcome |-> "returned",
              reply |-> ReplyWith("file_json", <<ExportSections(generated_script.lines)>>)]
        ELSE [outcome |-> "raised", reply |-> Reply("HTTP 400")]


(***************************************************************************)
(* The engine behind the server (app/main.py).  process_message runs in     *)
(* steps, its locals held in a frame: the steps are the places where a      *)
(* second call could run in between if calls were not serialized.           *)
(***************************************************************************)
MaxInflight == 2   \* frames the model has room for

AllEngineIds == EngineIds \cup UnknownIds

EngineKnown(s) == s \in DOMAIN active_sessions

UserMessages(sess) == SelectSeq(sess.messages, LAMBDA m : m.role = "user")

FreeSlot == Min((1..MaxInflight) \ DOMAIN inflight)

Without(map, key) == [k \in DOMAIN map \ {key} |-> map[k]]

\* Handlers started while another one runs, as on a thread per request.
DispatchAlways == TRUE

\* send_message, create_session, get_script and the websocket loop (main.py
\* 169-208, 291-326) are coroutines that call the engine synchronously, without an
\* await before the call returns, and the server runs one event loop in one
\* process (main.py 436): a handler starts only when no other one is running.
CanDispatch == DOMAIN inflight = {}

Completed(op, s, known, outcome, reply, a, calls) ==
    [op |-> op, session_id |-> s, known |-> known, outcome |-> outcome,
     reply |-> reply, attempt |-> a, llm_calls |-> calls]

\* POST /api/sessions (main.py 169-178): create_session, then get_introduction_message.
CreateSession(s) ==
    /\ CanDispatch
    /\ ~EngineKnown(s)
    /\ active_sessions' =
          Put(active_sessions, s,
              _add_message_to_session(NewSession(now), "assistant",
                                      Reply("introduction"), now))
    /\ last_call' = Completed("create_session", s, TRUE, "returned",
                              Reply("introduction"), NoAttempt, 0)
    /\ UNCHANGED <<inflight, dvars>>

\* get_introduction_message (engine.py 60-83) for an id without a session.
GetIntroductionMessage(s) ==
    /\ CanDispatch
    /\ ~EngineKnown(s)
    /\ last_call' = Completed("get_introduction_message", s, FALSE, "returned",
                              Reply("introduction"), NoAttempt, 0)
    /\ UNCHANGED <<active_sessions, inflight, dvars>>

\* process_message, lines 109-118: the session check, the user message stored,
\* the stage read.
SendMessage(s, m) ==
    /\ CanDispatch
    /\ Cardinality(DOMAIN inflight) < MaxInflight
    /\ IF ~EngineKnown(s)
       THEN /\ last_call' = Completed("process_message", s, FALSE, "returned",
                                      Reply("session_problem"), NoAttempt, 0)
            /\ UNCHANGED <<active_sessions, inflight>>
       ELSE /\ Len(UserMessages(active_sessions[s])) < MaxTurns
            /\ active_sessions' =
                  [active_sessions EXCEPT ![s] =
                      _add_message_to_session(@, "user", ReplyWith("user", << <<"text", m>> >>), now)]
            /\ inflight' =
                  Put(inflight, FreeSlot,
                      [session_id |-> s, message |-> m, pc |-> "handle",
                       stage |-> active_sessions[s].stage, question_index |-> 0,
                       reply |-> Reply(None), attempt |-> NoAttempt, llm_calls |-> 0])
            /\ last_call' = NoCall
    /\ UNCHANGED dvars

\* _process_strategic_question_response, lines 186-187: the index read.
ReadIndex(k) ==
    LET f == inflight[k]
    IN  /\ f.pc = "handle"
        /\ f.stage = "strategic_questions"
        /\ inflight' = [inflight EXCEPT ![k].pc = "store",
                                        ![k].question_index =
                                            active_sessions[f.session_id].current_question_index]
        /\ UNCHANGED <<active_sessions, last_call, dvars>>

\* A handler end that, when the handler raised, leaves the call at its handler
\* to run again for the same user message.
FinishRetries(k, result, a) ==
    LET f == inflight[k]
    IN  /\ active_sessions' = [active_sessions EXCEPT ![f.session_id] = result.session]
        /\ IF result.raised
           THEN /\ inflight' = [inflight EXCEPT ![k].llm_calls = result.llm_calls]
                /\ last_call' = Completed("process_message", f.session_id, TRUE, "raised",
                                          result.reply, a, result.llm_calls)
           ELSE /\ inflight' = [inflight EXCEPT ![k].pc = "reply",
                                                ![k].reply = result.reply,
                                                ![k].attempt = a,
                                                ![k].llm_calls = result.llm_calls]
                /\ UNCHANGED last_call

\* A handler end that stores the handler's session under every session id.
FinishWritesAll(k, result, a) ==
    LET f == inflight[k]
    IN  /\ active_sessions' = [s \in DOMAIN active_sessions |-> result.session]
        /\ IF result.raised
           THEN /\ inflight' = Without(inflight, k)
                /\ last_call' = Completed("process_message", f.session_id, TRUE, "raised",
                                          result.reply, a, result.llm_calls)
           ELSE /\ inflight' = [inflight EXCEPT ![k].pc = "reply",
                                                ![k].reply = result.reply,
                                                ![k].attempt = a,
                                                ![k].llm_calls = result.llm_calls]
                /\ UNCHANGED last_call

\* The end of a handler: its result kept for the reply, or the exception leaving
\* process_message.
Finish(k, result, a) ==
    LET f == inflight[k]
    IN  /\ active_sessions' = [active_sessions EXCEPT ![f.session_id] = result.session]
        /\ IF result.raised
           THEN /\ inflight' = Without(inflight, k)
                /\ last_call' = Completed("process_message", f.session_id, TRUE, "raised",
                                          result.reply, a, result.llm_calls)
           ELSE /\ inflight' = [inflight EXCEPT ![k].pc = "reply",
                                                ![k].reply = result.reply,
                                                ![k].attempt = a,
                                                ![k].llm_calls = result.llm_calls]
                /\ UNCHANGED last_call

\* _process_strategic_question_response, lines 190-201.
StoreAnswer(k) ==
    LET f == inflight[k]
    IN  /\ f.pc = "store"
        /\ Finish(k, _process_strategic_question_response(
                         active_sessions[f.session_id], f.question_index, f.message),
                  NoAttempt)
        /\ UNCHANGED dvars

\* The handler of any other stage (process_message, lines 121-149).
RunHandler(k, a) ==
    LET f == inflight[k]
        sess == active_sessions[f.session_id]
    IN  /\ f.pc = "handle"
        /\ f.stage # "strategic_questions"
        /\ IF Generates(sess, f.stage, f.message) THEN a \in Attempts ELSE a = NoAttempt
        /\ Finish(k, HandleStage(sess, f.stage, f.message, a), a)
        /\ UNCHANGED dvars

\* process_message, lines 152-154: the reply stored and returned.
Respond(k) ==
    LET f == inflight[k]
    IN  /\ f.pc = "reply"
        /\ active_sessions' =
              [active_sessions EXCEPT ![f.session_id] =
                  _add_message_to_session(@, "assistant", f.reply, now)]
        /\ inflight' = Without(inflight, k)
        /\ last_call' = Completed("process_message", f.session_id, TRUE, "returned",
                                  f.reply, f.attempt, f.llm_calls)
        /\ UNCHANGED dvars

\* get_generated_script (engine.py 521-533): line 523 indexes active_sessions.
GetGeneratedScript(s) ==
    /\ CanDispatch
    /\ last_call' =
          IF EngineKnown(s)
          THEN Completed("get_generated_script", s, TRUE, "returned",
                         get_generated_script(active_sessions[s]), NoAttempt, 0)
          ELSE Completed("get_generated_script", s, FALSE, "raised",
                         Reply("KeyError"), NoAttempt, 0)
    /\ UNCHANGED <<active_sessions, inflight, dvars>>

\* customize_script_section (engine.py 535-606): line 547 indexes active_sessions.
CustomizeScriptSection(s, section_key, request, retrieval, llm) ==
    /\ CanDispatch
    /\ IF EngineKnown(s)
       THEN LET result == customize_script_section(active_sessions[s], section_key,
                                                   request, retrieval, llm)
            IN  /\ active_sessions' = [active_sessions EXCEPT ![s] = result.session]
                /\ last_call' = Completed("customize_script_section", s, TRUE,
                                          IF result.raised THEN "raised" ELSE "returned",
                                          result.reply, NoAttempt, result.llm_calls)
       ELSE /\ last_call' = Completed("customize_script_section", s, FALSE, "raised",
                                      Reply("KeyError"), NoAttempt, 0)
            /\ UNCHANGED active_sessions
    /\ UNCHANGED <<inflight, dvars>>

\* POST /api/export-script (main.py 210-288).
ExportScript(s, format) ==
    /\ CanDispatch
    /\ last_call' =
          IF EngineKnown(s)
          THEN LET result == export_script(active_sessions[s], format)
               IN  Completed("export_script", s, TRUE, result.outcome, result.reply,
                             NoAttempt, 0)
          ELSE Completed("export_script", s, FALSE, "raised", Reply("HTTP 404"),
                         NoAttempt, 0)
    /\ UNCHANGED <<active_sessions, inflight, dvars>>

NextEngine ==
    \/ \E s \in EngineIds : CreateSession(s)
    \/ \E s \in UnknownIds : GetIntroductionMessage(s)
    \/ \E s \in AllEngineIds, m \in Messages : SendMessage(s, m)
    \/ \E k \in DOMAIN inflight : ReadIndex(k)
    \/ \E k \in DOMAIN inflight : StoreAnswer(k)
    \/ \E k \in DOMAIN inflight, a \in Attempts \cup {NoAttempt} : RunHandler(k, a)
    \/ \E k \in DOMAIN inflight : Respond(k)
    \/ \E s \in AllEngineIds : GetGeneratedScript(s)
    \/ \E s \in AllEngineIds, key \in SectionKeys, r \in CustomizationRequests :
          CustomizeScriptSection(s, key, r, "ok", "text")

SpecEngine == Init /\ [][NextEngine]_vars

(***************************************************************************)
(* SpecDocument: the engine from the review of a session on, with every    *)
(* outcome of generation, customization and export.                        *)
(***************************************************************************)
DocumentMessages == {"ja", "nein", "zeigen"}

CustomizeOutcomes == {"text", "empty", "status", "raises"}

UserMessage(m, t) ==
    [role |-> "user", content |-> ReplyWith("user", << <<"text", m>> >>), timestamp |-> t]

\* The session after the introduction and "ja" sent to open the dialogue and to
\* answer each of the strategic questions: only the last call returned a reply.
ReviewSession ==
    LET strategic_responses ==
            [q \in Range(get_strategic_questions) |-> "ja"]
        summary == ReplyWith("review_summary", CatalogAnswers(strategic_responses))
    IN  [NewSession(0) EXCEPT
            !.strategic_responses = strategic_responses,
            !.current_question_index = Len(get_strategic_questions),
            !.stage = "review",
            !.messages =
                <<[role |-> "assistant", content |-> Reply("introduction"), timestamp |-> 0]>>
                \o [i \in 1..(Len(get_strategic_questions) + 1) |-> UserMessage("ja", 0)]
                \o <<[role |-> "assistant", content |-> summary, timestamp |-> 0]>>]

InitDocument ==
    /\ dialogue_states = <<>>
    /\ now = 0
    /\ advances = <<>>
    /\ active_sessions = [s \in EngineIds |-> ReviewSession]
    /\ inflight = <<>>
    /\ last_call = Completed("process_message", "e1", TRUE, "returned",
                             ReviewSession.messages[Len(ReviewSession.messages)].content,
                             NoAttempt, 0)
    /\ threads = [t \in Threads |-> Idle]
    /\ last_op = NoOp

NextDocument ==
    \/ \E s \in EngineIds, m \in DocumentMessages : SendMessage(s, m)
    \/ \E k \in DOMAIN inflight, a \in Attempts \cup {NoAttempt} : RunHandler(k, a)
    \/ \E k \in DOMAIN inflight : Respond(k)
    \/ \E s \in AllEngineIds : GetGeneratedScript(s)
    \/ \E s \in AllEngineIds, format \in ExportFormats : ExportScript(s, format)
    \/ \E s \in AllEngineIds, key \in SectionKeys, r \in CustomizationRequests,
          retrieval \in RetrievalOutcomes, llm \in CustomizeOutcomes :
          CustomizeScriptSection(s, key, r, retrieval, llm)

SpecDocument == InitDocument /\ [][NextDocument]_vars


(***************************************************************************)
(* Properties of the engine.                                               *)
(***************************************************************************)
\* The session the last completed call was about.
LastSession == active_sessions[last_call.session_id]

\* A generation attempt ran in the last completed process_message call.
Attempted ==
    /\ last_call.op = "process_message"
    /\ last_call.attempt # NoAttempt
    /\ EngineKnown(last_call.session_id)

\* The last call returned the generic failure notice and left the session
\* without a script in the review stage.
RolledBack ==
    /\ last_call.outcome = "returned"
    /\ last_call.reply = Reply("generation_failed")
    /\ LastSession.generated_script = NoScript
    /\ LastSession.stage = "review"

ShowsStatusText(reply) ==
    \E i \in 1..Len(reply.detail) : reply.detail[i] \in Range(StatusText)

\* C2: when a step of a generation attempt raised (retrieval, formatting and
\* prompt assembly, the LLM call), process_message returned the generic failure
\* message, generated_script is None and the stage is review.
C2_FailureRollsBack ==
    (Attempted /\ "raises" \in {last_call.attempt.retrieval, last_call.attempt.prompt,
                               last_call.attempt.llm})
        => RolledBack

\* C3: when the LLM call of a generation attempt failed (it raised, or the server
\* answered with a status other than 200), no script is stored, the stage is
\* review, and neither the reply nor what get_generated_script returns for the
\* session shows the status text.
C3_LlmFailureHidden ==
    (Attempted /\ last_call.attempt.llm \in {"status", "raises"})
        => /\ last_call.outcome = "returned"
           /\ LastSession.generated_script = NoScript
           /\ LastSession.stage = "review"
           /\ ~ShowsStatusText(last_call.reply)
           /\ ~ShowsStatusText(get_generated_script(LastSession))

\* C4: when a vector search failed in a generation attempt, no LLM call was made
\* in the attempt, no script is stored, the stage is review and the generic
\* failure notice was returned.
C4_SearchFailureAborts ==
    (Attempted /\ last_call.attempt.retrieval \in {"query_error", "raises"})
        => (last_call.llm_calls = 0 /\ RolledBack)

\* C5: an engine operation called with an id that has no session returns (it does
\* not raise) and creates no session, and process_message reports the session
\* problem.
C5_UnknownSessionReported ==
    (last_call.op # None /\ ~last_call.known)
        => /\ last_call.outcome = "returned"
           /\ ~EngineKnown(last_call.session_id)
           /\ last_call.op = "process_message" => last_call.reply = Reply("session_problem")

\* The answers the session stores are those of the user messages after the
\* first, in order, under the first ids of the catalog.
AnswersInOrder(sess) ==
    LET users == UserMessages(sess)
        index == sess.current_question_index
    IN  /\ index = Len(users) - 1
        /\ DOMAIN sess.strategic_responses = {get_strategic_questions[i] : i \in 1..index}
        /\ \A i \in 1..index :
              users[i + 1].content.detail =
                  << <<"text", sess.strategic_responses[get_strategic_questions[i]]>> >>

\* C7: process_message calls are not interleaved (at most one is in progress), and
\* whenever none is in progress in the strategic-question stage each message
\* received has advanced current_question_index by one and is stored under its own
\* question id, the ids consecutive in the catalog: two calls advance the index by
\* exactly two, with no answer lost or overwritten and no question skipped.
C7_MessagesSerialized ==
    /\ Cardinality(DOMAIN inflight) <= 1
    /\ \A s \in DOMAIN active_sessions :
          (/\ \A k \in DOMAIN inflight : inflight[k].session_id # s
           /\ active_sessions[s].stage = "strategic_questions")
          => AnswersInOrder(active_sessions[s])

C7_Witness ==
    \E s \in DOMAIN active_sessions :
        /\ DOMAIN inflight = {}
        /\ last_call.op = "process_message"
        /\ active_sessions[s].stage = "strategic_questions"
        /\ active_sessions[s].current_question_index = 2
        /\ active_sessions[s].strategic_responses["facility_type"] = "ja"
        /\ active_sessions[s].strategic_responses["target_audience"] = "nein"


(***************************************************************************)
(* SpecSweep: clean_expired_sessions run on threads of its own beside a     *)
(* request thread.  A thread takes one step per access to the dictionary    *)
(* dialogue_states; the statements between two accesses run with the        *)
(* second.  The clock counts days.                                          *)
(***************************************************************************)
MaxTime == 2       \* days explored

max_age_hours == 24

SweepOps == {"get_next_question", "process_response"}

SweepAnswerIds == {"facility_type"}

SweepValues == {"Phishing"}

AgeHours(last_updated, current_time) == (current_time - last_updated) * 24

Raise(t, error) ==
    threads' = [threads EXCEPT ![t].pc = "raised", ![t].error = error]

Return(t) == threads' = [threads EXCEPT ![t] = Idle]

Tick ==
    /\ now < MaxTime
    /\ now' = now + 1
    /\ UNCHANGED <<dialogue_states, advances, threads, evars, last_op>>

\* initialize_dialogue on the request thread: one store into the dictionary.
SweepInitialize(t, s) ==
    /\ threads[t].pc = "idle"
    /\ InitializeDialogue(s)
    /\ UNCHANGED last_op

\* One turn of the loop of lines 362-367 by a thread whose frame is f.  The
\* iterator raises RuntimeError when the dictionary has another number of entries
\* than when the iteration began; otherwise it yields an entry not yet visited
\* (the order of the dictionary is left open) or ends the loop.
Visit(t, f) ==
    LET rest == DOMAIN dialogue_states \ f.seen
    IN  IF Cardinality(DOMAIN dialogue_states) # f.used
        THEN threads' = [threads EXCEPT ![t] = [f EXCEPT !.pc = "raised",
                                                        !.error = "RuntimeError"]]
        ELSE IF rest = {}
        THEN threads' = [threads EXCEPT ![t] = [f EXCEPT !.pc = "remove"]]
        ELSE \E session_id \in rest :
               threads' = [threads EXCEPT ![t] = [f EXCEPT
                  !.pc = "iterate",
                  !.seen = @ \cup {session_id},
                  !.sessions_to_remove =
                     IF AgeHours(dialogue_states[session_id].last_updated,
                                 f.current_time) > max_age_hours
                     THEN Append(@, session_id) ELSE @]]

\* clean_expired_sessions, lines 359-362: the time read, the iteration begun (the
\* iterator remembers the number of entries of the dictionary) and its first turn.
StartSweep(t) ==
    /\ threads[t].pc = "idle"
    /\ Visit(t, [Idle EXCEPT !.op = "clean_expired_sessions",
                             !.current_time = now,
                             !.used = Cardinality(DOMAIN dialogue_states)])
    /\ UNCHANGED <<dialogue_states, now, advances, evars, last_op>>

\* A later turn of the loop.
SweepVisit(t) ==
    /\ threads[t].pc = "iterate"
    /\ Visit(t, threads[t])
    /\ UNCHANGED <<dialogue_states, now, advances, evars, last_op>>

\* One turn of the loop of lines 370-371, or the return of line 373.  del raises
\* KeyError for an id that is not in the dictionary.
SweepRemove(t) ==
    LET f == threads[t]
    IN  /\ f.pc = "remove"
        /\ IF f.sessions_to_remove = <<>>
           THEN Return(t) /\ UNCHANGED dialogue_states
           ELSE IF Head(f.sessions_to_remove) \in DOMAIN dialogue_states
           THEN /\ dialogue_states' = Without(dialogue_states, Head(f.sessions_to_remove))
                /\ threads' = [threads EXCEPT ![t].sessions_to_remove = Tail(@)]
           ELSE Raise(t, "KeyError") /\ UNCHANGED dialogue_states
        /\ UNCHANGED <<now, advances, evars, last_op>>

\* A request begins: get_next_question or process_response is called.
StartRequest(t, op, s, q, v) ==
    /\ threads[t].pc = "idle"
    /\ threads' = [threads EXCEPT ![t] =
          [Idle EXCEPT !.op = op, !.pc = "check", !.session_id = s,
                       !.question_id = IF op = "process_response" THEN q ELSE None,
                       !.response = IF op = "process_response" THEN v ELSE None]]
    /\ UNCHANGED <<dialogue_states, now, advances, evars, last_op>>

\* The membership test of get_next_question (line 158) and of process_response
\* (lines 93-94).
RequestCheck(t) ==
    LET f == threads[t]
    IN  /\ f.pc = "check"
        /\ IF f.session_id \in DOMAIN dialogue_states
           THEN /\ threads' = [threads EXCEPT ![t].pc = "lookup"]
                /\ UNCHANGED dialogue_states
           ELSE /\ Return(t)
                /\ dialogue_states' =
                      IF f.op = "process_response"
                      THEN Put(dialogue_states, f.session_id, NewDialogueState(now))
                      ELSE dialogue_states
        /\ UNCHANGED <<now, advances, evars, last_op>>

\* The lookup of get_next_question (line 161) and of process_response (line 96),
\* which raises KeyError for an id no longer there, and the rest of the operation.
RequestLookup(t) ==
    LET f == threads[t]
    IN  /\ f.pc = "lookup"
        /\ IF f.session_id \in DOMAIN dialogue_states
           THEN /\ Return(t)
                /\ dialogue_states' =
                      [dialogue_states EXCEPT ![f.session_id] =
                          IF f.op = "process_response"
                          THEN process_response(@, f.question_id, f.response, now)
                          ELSE get_next_question(@).state]
           ELSE Raise(t, "KeyError") /\ UNCHANGED dialogue_states
        /\ UNCHANGED <<now, advances, evars, last_op>>

NextSweep ==
    \/ Tick
    \/ \E t \in Requests, s \in SessionIds : SweepInitialize(t, s)
    \/ \E t \in Sweepers : StartSweep(t)
    \/ \E t \in Sweepers : SweepVisit(t)
    \/ \E t \in Sweepers : SweepRemove(t)
    \/ \E t \in Requests, op \in SweepOps, s \in SessionIds,
          q \in SweepAnswerIds, v \in SweepValues : StartRequest(t, op, s, q, v)
    \/ \E t \in Requests : RequestCheck(t)
    \/ \E t \in Requests : RequestLookup(t)

SpecSweep == Init /\ [][NextSweep]_vars

\* C6: with clean_expired_sessions running beside get_next_question,
\* process_response, initialize_dialogue and a second clean_expired_sessions, no
\* operation raises.
C6_SweepNeverRaises ==
    \A t \in Threads : threads[t].pc # "raised"

(***************************************************************************)
(* SpecRecord: one dialogue under a clock, every call logged in last_op.   *)
(***************************************************************************)
\* A strategic id, a contextual id and an id of neither catalog, whose answer
\* makes process_response derive the contextual questions.
RecordIds == {"facility_type", "previous_training", "clarify_facility"}

Logged(op, s) ==
    [NoOp EXCEPT !.op = op, !.session_id = s, !.known = Known(s)]

RecordInitialize(s) ==
    /\ InitializeDialogue(s)
    /\ last_op' = Logged("initialize_dialogue", s)

\* The call before was process_response for the same question of the same,
\* existing session.
Repeats(s, q) ==
    /\ Known(s)
    /\ last_op.op = "process_response"
    /\ last_op.known
    /\ last_op.session_id = s
    /\ last_op.question_id = q

RecordProcessResponse(s, q, v) ==
    /\ ProcessResponse(s, q, v)
    /\ last_op' = [Logged("process_response", s) EXCEPT
           !.question_id = q,
           !.response = v,
           !.refreshed = Known(s) /\ dialogue_states[s].last_updated < now,
           !.repeated = Repeats(s, q),
           !.prev_response = IF Repeats(s, q) THEN last_op.response ELSE None]

RecordGetNextQuestion(s) ==
    /\ GetNextQuestion(s)
    /\ UNCHANGED advances
    /\ last_op' = Logged("get_next_question", s)

RecordFlagForRevision(s, r) ==
    /\ FlagForRevision(s, r)
    /\ last_op' = Logged("flag_for_revision", s)

RecordGetDialogueSummary(s) ==
    /\ GetDialogueSummary(s)
    /\ last_op' = [Logged("get_dialogue_summary", s) EXCEPT
           !.result = IF Known(s)
                      THEN get_dialogue_summary(dialogue_states[s])
                      ELSE [error |-> "Session not found"]]

NextRecord ==
    \/ Tick
    \/ \E s \in SessionIds : RecordInitialize(s)
    \/ \E s \in SessionIds, q \in RecordIds, v \in Values : RecordProcessResponse(s, q, v)
    \/ \E s \in SessionIds : RecordGetNextQuestion(s)
    \/ \E s \in SessionIds, r \in RevisionRequests : RecordFlagForRevision(s, r)
    \/ \E s \in SessionIds : RecordGetDialogueSummary(s)

SpecRecord == Init /\ [][NextRecord]_vars

Count(x, seq) == Cardinality({i \in 1..Len(seq) : seq[i] = x})

\* C12: after process_response(s, q, v1) directly followed by
\* process_response(s, q, v2) on an existing session, the answer mapping holds
\* v2 for q and asked_questions holds q exactly once.
C12_SecondAnswerWins ==
    (last_op.op = "process_response" /\ last_op.repeated) =>
        LET d == dialogue_states[last_op.session_id]
            q == last_op.question_id
        IN  /\ q \in DOMAIN d.responses
            /\ d.responses[q] = last_op.response
            /\ Count(q, d.asked_questions) = 1

C12_Witness ==
    /\ last_op.op = "process_response"
    /\ last_op.repeated
    /\ last_op.prev_response = ""
    /\ last_op.response = "Phishing"
    /\ Len(dialogue_states[last_op.session_id].asked_questions) > 1

StateFields == DOMAIN NewDialogueState(0)

\* The fields process_response may write.
ResponseFields == {"responses", "asked_questions", "contextual_questions", "last_updated"}

\* C13: process_response on an existing session keeps current_stage,
\* next_question_index and every other field outside the answer mapping, the
\* asked list, the contextual question list and last_updated, and sets
\* last_updated to the time of the call.
C13_ResponseFrame ==
    [][\A s \in DOMAIN dialogue_states :
         \/ /\ Known(s)'
            /\ DOMAIN dialogue_states'[s] = DOMAIN dialogue_states[s]
            /\ \A f \in StateFields \ ResponseFields :
                   dialogue_states'[s][f] = dialogue_states[s][f]
            /\ dialogue_states'[s].last_updated = now
         \/ last_op'.op # "process_response"
         \/ ~(\E q \in RecordIds, v \in Values : RecordProcessResponse(s, q, v))]_vars

C13_Witness ==
    /\ last_op.op = "process_response"
    /\ last_op.known
    /\ last_op.refreshed
    /\ dialogue_states[last_op.session_id].last_updated = now
    /\ Stage(last_op.session_id) = "strategic_questions"
    /\ Index(last_op.session_id) > 1
    /\ dialogue_states[last_op.session_id].needs_revision = FALSE

Position(x, seq) == CHOOSE i \in 1..Len(seq) : seq[i] = x

\* C15: get_dialogue_summary lists exactly the answered questions of the
\* strategic catalog and of the dialogue's contextual questions, each with its
\* answer, strategic before contextual and each catalog in its own order, and
\* reports the current stage and the number of questions answered.
C15_SummaryInCatalogOrder ==
    (last_op.op = "get_dialogue_summary" /\ last_op.known) =>
        LET d == dialogue_states[last_op.session_id]
            listed == last_op.result.responses
            catalog == STRATEGIC_QUESTIONS \o d.contextual_questions
        IN  /\ {listed[i][1] : i \in 1..Len(listed)} = DOMAIN d.responses \cap Range(catalog)
            /\ \A i \in 1..Len(listed) : listed[i][2] = d.responses[listed[i][1]]
            /\ \A i, j \in 1..Len(listed) :
                   i < j => Position(listed[i][1], catalog) < Position(listed[j][1], catalog)
            /\ last_op.result.stage = d.current_stage
            /\ last_op.result.questions_asked = Cardinality(DOMAIN d.responses)

C15_Witness ==
    /\ last_op.op = "get_dialogue_summary"
    /\ last_op.known
    /\ dialogue_states[last_op.session_id].asked_questions =
          <<"previous_training", "clarify_facility", "facility_type">>
    /\ Len(last_op.result.responses) = 2
    /\ last_op.result.stage = "revision"

(***************************************************************************)
(* SpecExpire: clean_expired_sessions called between the other calls, on   *)
(* two sessions under a clock.                                             *)
(***************************************************************************)
ExpireIds == {"s1", "s2"}

MaxAges == {0, max_age_hours}

\* clean_expired_sessions removing the sessions that are at least max_age old.
CleanAtMaxAge(states, current_time, max_age) ==
    LET sessions_to_remove ==
            {session_id \in DOMAIN states :
                AgeHours(states[session_id].last_updated, current_time) >= max_age}
    IN  [states |-> [session_id \in DOMAIN states \ sessions_to_remove |-> states[session_id]],
         removed |-> sessions_to_remove,
         result |-> Cardinality(sessions_to_remove)]

\* clean_expired_sessions (dialogue.py 359-373) as one uninterrupted call: the
\* dictionary after it and the returned number.
clean_expired_sessions(states, current_time, max_age) ==
    LET sessions_to_remove ==
            {session_id \in DOMAIN states :
                AgeHours(states[session_id].last_updated, current_time) > max_age}
    IN  [states |-> [session_id \in DOMAIN states \ sessions_to_remove |-> states[session_id]],
         removed |-> sessions_to_remove,
         result |-> Cardinality(sessions_to_remove)]

CleanExpiredSessions(max_age) ==
    LET call == clean_expired_sessions(dialogue_states, now, max_age)
    IN  /\ dialogue_states' = call.states
        /\ last_op' = [NoOp EXCEPT !.op = "clean_expired_sessions",
                                   !.max_age = max_age,
                                   !.removed = call.removed,
                                   !.result = call.result]
        /\ UNCHANGED <<now, advances, threads, evars>>

NextExpire ==
    \/ Tick
    \/ \E s \in ExpireIds : RecordInitialize(s)
    \/ \E s \in ExpireIds, q \in SweepAnswerIds, v \in SweepValues :
          RecordProcessResponse(s, q, v)
    \/ \E s \in ExpireIds : RecordGetNextQuestion(s)
    \/ \E max_age \in MaxAges : CleanExpiredSessions(max_age)

SpecExpire == Init /\ [][NextExpire]_vars

\* C14: clean_expired_sessions(max_age) removes a session exactly when its
\* last_updated lies more than max_age hours back, returns the number of
\* sessions it removed and leaves the state of every other session as it was.
C14_RemovesExactlyExpired ==
    [][\A max_age \in MaxAges :
         CleanExpiredSessions(max_age) =>
            /\ DOMAIN dialogue_states' \subseteq DOMAIN dialogue_states
            /\ \A s \in DOMAIN dialogue_states :
                   s \in DOMAIN dialogue_states' <=>
                      (now - dialogue_states[s].last_updated) * 24 <= max_age
            /\ \A s \in DOMAIN dialogue_states' :
                   dialogue_states'[s] = dialogue_states[s]
            /\ last_op'.result =
                  Cardinality(DOMAIN dialogue_states) - Cardinality(DOMAIN dialogue_states')]_vars

\* A sweep that removed one session and kept one that is exactly max_age old.
C14_Witness ==
    /\ last_op.op = "clean_expired_sessions"
    /\ last_op.max_age = max_age_hours
    /\ last_op.result = 1
    /\ \E s \in DOMAIN dialogue_states :
          /\ (now - dialogue_states[s].last_updated) * 24 = max_age_hours
          /\ dialogue_states[s].responses # <<>>

(***************************************************************************)
(* The question stage of ChatbotEngine.                                    *)
(***************************************************************************)
MessageText(m) == m.content.detail[1][2]

\* The k-th message of the user after the first one.
Answer(sess, k) == MessageText(UserMessages(sess)[k + 1])

QuestionReply(k) == ReplyWith("question", << <<"id", get_strategic_questions[k]>> >>)

\* C16: when a process_message call on a session has ended, the first message
\* is stored under no id and was answered with the first catalog question;
\* after n - 1 < N further messages the stage is strategic_questions, the k-th
\* of them is stored under the k-th catalog id and the reply was the n-th
\* question; after the N-th the stage is review and the reply was the summary
\* of the N answers in catalog order.
C16_AnswersFollowCatalog ==
    (/\ last_call.op = "process_message"
     /\ last_call.known
     /\ Len(UserMessages(LastSession)) <= NumStrategic + 1)
        => LET sess == LastSession
               n == Len(UserMessages(sess))
           IN  /\ last_call.outcome = "returned"
               /\ DOMAIN sess.strategic_responses =
                     {get_strategic_questions[k] : k \in 1..(n - 1)}
               /\ \A k \in 1..(n - 1) :
                     sess.strategic_responses[get_strategic_questions[k]] = Answer(sess, k)
               /\ n <= NumStrategic =>
                     /\ sess.stage = "strategic_questions"
                     /\ last_call.reply = QuestionReply(n)
               /\ n = NumStrategic + 1 =>
                     /\ sess.stage = "review"
                     /\ last_call.reply =
                           ReplyWith("review_summary",
                                     [k \in 1..NumStrategic |->
                                         <<get_strategic_questions[k], Answer(sess, k)>>])

(***************************************************************************)
(* The stored document.                                                    *)
(***************************************************************************)
\* The replies that hand the document out.
DocumentKinds == {"script", "file_markdown", "file_json"}

\* The lines a reply shows: of the JSON export, the headings and the contents
\* of its sections.
ReplyLines(reply) ==
    IF reply.kind = "file_json"
    THEN LET sections == reply.detail[1]
         IN  {<<"##", t>> : t \in DOMAIN sections}
             \cup UNION {Range(sections[t]) : t \in DOMAIN sections}
    ELSE Range(reply.detail)

\* C17: when the hallucination check of a session's document reported items,
\* every reply that hands the document out (get_generated_script, the reply to
\* a show request, the markdown and the JSON export) holds the caveat block with
\* every reported item.
C17_CaveatEverywhere ==
    (/\ last_call.known
     /\ last_call.outcome = "returned"
     /\ last_call.reply.kind \in DocumentKinds
     /\ LastSession.hallucination_warnings # <<>>)
        => Range(WarningText) \subseteq ReplyLines(last_call.reply)

\* C18: when the check call of a generation attempt failed or returned a text
\* that is not an object of the expected schema, the attempt ends as one without
\* reported items: the success reply is returned, the document is stored and
\* the stage is followup.
C18_CheckDegrades ==
    (Attempted /\ last_call.attempt.check \in {"no_json", "call_fails", "bad_schema"})
        => /\ last_call.outcome = "returned"
           /\ last_call.reply = Reply("script_generated")
           /\ LastSession.generated_script = GeneratedText(last_call.attempt.llm)
           /\ LastSession.hallucination_warnings = <<>>
           /\ LastSession.stage = "followup"

\* C19: a customize_script_section call on a session changes nothing of the
\* session but generated_script; when the section is found and the LLM call
\* succeeds, one occurrence of the section is replaced and the text before and
\* after it is kept; when the section is not found or a call fails, the
\* document is unchanged.
C19_OneSectionReplaced ==
    [][\A s \in EngineIds, key \in SectionKeys, r \in CustomizationRequests,
          retrieval \in RetrievalOutcomes, llm \in CustomizeOutcomes :
         (EngineKnown(s) /\ CustomizeScriptSection(s, key, r, retrieval, llm)) =>
            LET sess == active_sessions[s]
                before == sess.generated_script.lines
                after == active_sessions'[s].generated_script.lines
                starts == SectionStart(before, SectionTitle(key))
                failed == retrieval = "raises" \/ llm \in {"raises", "status"}
            IN  /\ active_sessions'[s] =
                      [sess EXCEPT !.generated_script = active_sessions'[s].generated_script]
                /\ (starts = {} \/ failed) =>
                      active_sessions'[s].generated_script = sess.generated_script
                /\ (starts # {} /\ ~failed) =>
                      \E i \in starts :
                         LET kept == Len(before) - SectionEnd(before, i)
                         IN  /\ Len(after) >= (i - 1) + kept
                             /\ SubSeq(after, 1, i - 1) = SubSeq(before, 1, i - 1)
                             /\ SubSeq(after, Len(after) - kept + 1, Len(after)) =
                                   SubSeq(before, SectionEnd(before, i) + 1, Len(before))]_vars

\* C20: generated_script is written only by a generation attempt that returns
\* the success reply and by a customization of a stored document, and while it
\* is None get_generated_script returns the notice that no script exists yet.
C20_WrittenOnSuccessOnly ==
    [][\A s \in DOMAIN active_sessions \cap DOMAIN active_sessions' :
         LET before == active_sessions[s].generated_script
             after == active_sessions'[s].generated_script
         IN  /\ after = NoScript =>
                   get_generated_script(active_sessions'[s]) = Reply("no_script_yet")
             /\ after # before =>
                   \/ \E k \in DOMAIN inflight' :
                         /\ inflight'[k].session_id = s
                         /\ inflight'[k].pc = "reply"
                         /\ inflight'[k].reply = Reply("script_generated")
                   \/ /\ before # NoScript
                      /\ last_call'.op = "customize_script_section"]_vars

(***************************************************************************)
(* The generation attempt.                                                 *)
(***************************************************************************)
\* C21: the session_context a generation attempt builds and stores holds every
\* (question id, answer) pair of strategic_responses, whatever its key, and
\* nothing else.
C21_SnapshotHoldsEveryAnswer ==
    (Attempted /\ LastSession.generation_context # NoContext)
        => LastSession.generation_context.session_context = LastSession.strategic_responses

\* The LLM calls a call made up to the step's end: the running call's, or those
\* of the call that just completed.
CallsAfter(k) ==
    IF k \in DOMAIN inflight' THEN inflight'[k].llm_calls ELSE last_call'.llm_calls

\* C22: a user message that starts generation causes exactly one attempt: the
\* step that runs the attempt ends the handler of that message (the call has
\* raised, or only its reply is left to store), so an attempt, failed or not, runs
\* again only for a new user message; and the attempt makes one round of
\* retrieval and at most one generation call, beside at most one check call.
C22_OneAttemptPerConfirmation ==
    [][\A k \in DOMAIN inflight :
         \/ inflight[k].pc # "handle"
         \/ \A a \in Attempts :
              RunHandler(k, a) =>
                /\ k \in DOMAIN inflight' => inflight'[k].pc = "reply"
                /\ inflight[k].message =
                      UserMessages(active_sessions[inflight[k].session_id])[
                          Len(UserMessages(active_sessions[inflight[k].session_id]))].content.detail[1][2]
                /\ CallsAfter(k) - (IF a.check = None THEN 0 ELSE 1)
                      = (IF a.llm = None THEN 0 ELSE 1)]_vars

C22_Witness ==
    /\ Attempted
    /\ last_call.outcome = "raised"
    /\ last_call.attempt.llm = "raises"
    /\ last_call.llm_calls = 1
    /\ Len(UserMessages(LastSession)) > 1

\* The session_context of _generate_script (engine.py 313-318).
session_context(sess) ==
    [q \in DOMAIN sess.strategic_responses \cap Range(get_strategic_questions)
        |-> sess.strategic_responses[q]]

\* isinstance(value, list) for an answer of the session: process_message stores
\* the message, a str, as the answer (engine.py 194-195), never a list.
IsList(value) == FALSE

\* The query of _generate_script (engine.py 327), a text given by its parts.
generation_query(context) ==
    <<"Security training for", Get(context, "facility_type", "medical facility"),
      "focused on", Get(context, "focus_threats", "security threats")>>

\* The enriched query retrieve_context hands to search_all (controller.py 39-66).
enriched_query(query, context) ==
    LET facility == Get(context, "facility_type", "")
        audience == Get(context, "target_audience", "")
        threats == Get(context, "focus_threats", "")
    IN  query
          \o CondSeq(facility # "", <<"in", facility>>)
          \o CondSeq(audience # "" /\ IsList(audience), <<"for", audience>>)
          \o CondSeq(threats # "" /\ IsList(threats), <<"focusing on", threats>>)

\* The query text of the attempt of the last call.
SearchQuery ==
    enriched_query(generation_query(session_context(LastSession)),
                   session_context(LastSession))

\* C23: when a generation attempt runs for a session whose facility_type,
\* target_audience and focus_threats were answered through process_message, the
\* query handed to search_all contains each of the three answers.
C23_QueryHoldsThreeAnswers ==
    (/\ Attempted
     /\ {"facility_type", "target_audience", "focus_threats"}
            \subseteq DOMAIN LastSession.strategic_responses)
        => \A q \in {"facility_type", "target_audience", "focus_threats"} :
              LastSession.strategic_responses[q] \in Range(SearchQuery)

(***************************************************************************)
(* SpecPrompt: the text functions between a retrieved or typed text and    *)
(* the request sent to the LLM. A text is the sequence of its characters;  *)
(* a placeholder "{a}" counts as one character, as do the headings a       *)
(* builder writes around its arguments.                                    *)
(***************************************************************************)
MaxText == 2

Characters == {"x", "%", "{a}", "{b}"}

Texts == UNION {[1..n -> Characters] : n \in 0..MaxText}

ShortTexts == {<<>>} \cup {<<c>> : c \in Characters}

\* part occurs in text as a run of consecutive characters.
Within(text, part) ==
    \E i \in 0..(Len(text) - Len(part)) :
        \A j \in 1..Len(part) : text[i + j] = part[j]

\* text.replace(old, new) for a one-character old.
Replace(text, old, new) ==
    Flatten([i \in 1..Len(text) |-> IF text[i] = old THEN new ELSE <<text[i]>>])

\* fix_prompt (diagnostics.py 55-65) for a str.
fix_prompt(prompt) == Replace(prompt, "%", <<"%", "%">>)

\* safe_format (diagnostics.py 35-53): kwargs is the sequence of the (key, value)
\* pairs in the order of the call; replace acts on the result so far, so the
\* `placeholder in result` test changes nothing.
RECURSIVE SubstituteEach(_, _)
SubstituteEach(result, kwargs) ==
    IF kwargs = <<>> THEN result
    ELSE SubstituteEach(Replace(result, "{" \o Head(kwargs)[1] \o "}", Head(kwargs)[2]),
                        Tail(kwargs))

safe_format(template_string, kwargs) ==
    SubstituteEach(Replace(template_string, "%", <<"%", "%">>), kwargs)

\* build_script_generation_prompt (prompt_builder.py 71-153): the answers enter
\* the f-string as they are, the retrieved context after replace("%", "%%").
build_script_generation_prompt(facility_type, retrieved_context) ==
    <<"# TASK">> \o facility_type \o <<"# TEMPLATE-STRUKTUR">>
        \o Replace(retrieved_context, "%", <<"%", "%">>) \o <<"# SKRIPT ANFANG">>

\* build_customization_prompt (prompt_builder.py 348-383).
build_customization_prompt(base_content, customization_request) ==
    <<"# ORIGINAL CONTENT">> \o Replace(base_content, "%", <<"%", "%">>)
        \o <<"# CUSTOMIZATION REQUEST">>
        \o Replace(customization_request, "%", <<"%", "%">>) \o <<"# MODIFIED CONTENT">>

\* build_hallucination_check_prompt (prompt_builder.py 385-430).
build_hallucination_check_prompt(generated_content, retrieved_context) ==
    <<"# GENERATED CONTENT">> \o Replace(generated_content, "%", <<"%", "%">>)
        \o <<"# RETRIEVED CONTEXT">>
        \o Replace(retrieved_context, "%", <<"%", "%">>) \o <<"# OUTPUT FORMAT">>

Builders ==
    {"build_script_generation_prompt", "build_customization_prompt",
     "build_hallucination_check_prompt"}

Build(builder, first, second) ==
    CASE builder = "build_script_generation_prompt" ->
            build_script_generation_prompt(first, second)
      [] builder = "build_customization_prompt" ->
            build_customization_prompt(first, second)
      [] builder = "build_hallucination_check_prompt" ->
            build_hallucination_check_prompt(first, second)

\* A builder called on fresh arguments and its prompt passed to
\* OllamaClient.generate, which posts request_data["prompt"] = fix_prompt(prompt)
\* (ollama_client.py 75-88, 108).
GeneratePrompt(builder, first, second) ==
    /\ last_call = NoCall
    /\ last_call' = [op |-> builder, first |-> first, second |-> second,
                     kwargs |-> <<>>,
                     result |-> Build(builder, first, second),
                     sent |-> fix_prompt(Build(builder, first, second))]
    /\ UNCHANGED <<active_sessions, inflight, dvars>>

\* safe_format(template_string, **kwargs) with two keys, in either order.
SafeFormat(template_string, kwargs) ==
    /\ last_call = NoCall
    /\ last_call' = [op |-> "safe_format", first |-> template_string, second |-> <<>>,
                     kwargs |-> kwargs,
                     result |-> safe_format(template_string, kwargs),
                     sent |-> <<>>]
    /\ UNCHANGED <<active_sessions, inflight, dvars>>

KeywordArguments ==
    {<< <<"a", va>>, <<"b", vb>> >> : va \in ShortTexts, vb \in ShortTexts}
        \cup {<< <<"b", vb>>, <<"a", va>> >> : va \in ShortTexts, vb \in ShortTexts}

NextPrompt ==
    \/ \E b \in Builders, first \in ShortTexts, second \in Texts :
          GeneratePrompt(b, first, second)
    \/ \E t \in Texts, kwargs \in KeywordArguments : SafeFormat(t, kwargs)

SpecPrompt == Init /\ [][NextPrompt]_vars

\* C24: a retrieved or typed text that contains '%' is part of the prompt sent
\* to the LLM character for character, and the prompt sent has no '%' more or
\* less than the two texts it was built from.
C24_PercentTextUnchanged ==
    last_call.op \in Builders =>
        /\ \A t \in {last_call.first, last_call.second} :
              "%" \in Range(t) => Within(last_call.sent, t)
        /\ Count("%", last_call.sent)
              = Count("%", last_call.first) + Count("%", last_call.second)

\* C25: when safe_format substitutes a value that holds the placeholder of
\* another supplied key, the result holds that value as it is, and the result is
\* the same for the keys in the other order.
C25_SinglePass ==
    last_call.op = "safe_format" =>
        \A i \in 1..2 :
            LET key == last_call.kwargs[i][1]
                value == last_call.kwargs[i][2]
                other == last_call.kwargs[3 - i][1]
            IN  ("{" \o key \o "}" \in Range(last_call.first)
                    /\ "{" \o other \o "}" \in Range(value))
                  => /\ Within(last_call.result, value)
                     /\ last_call.result =
                           safe_format(last_call.first,
                                       <<last_call.kwargs[2], last_call.kwargs[1]>>)

(***************************************************************************)
(* The exported sections rendered back.                                    *)
(***************************************************************************)
\* A dict is the sequence of its (key, value) pairs in insertion order; a value
\* is a str given by its lines or a dict.
StrValue(lines) == [type |-> "str", lines |-> lines, items |-> <<>>]

DictValue(items) == [type |-> "dict", lines |-> <<>>, items |-> items]

\* dict.get(key, default) on a sequence of pairs.
ItemGet(items, key, default) ==
    IF \E i \in 1..Len(items) : items[i][1] = key
    THEN items[CHOOSE i \in 1..Len(items) : items[i][1] = key][2]
    ELSE default

\* The sections dict of the JSON branch of export_script (main.py 246-265), its
\* keys in the order of their first insertion.
SectionItems(lines) ==
    LET sections == ExportSections(lines)
        first(t) == Min({i \in ExportHeaders(lines) : lines[i][2] = t})
        order == SelectSeq([i \in 1..Len(lines) |-> i],
                           LAMBDA i : /\ i \in ExportHeaders(lines)
                                      /\ lines[i][2] \in DOMAIN sections
                                      /\ first(lines[i][2]) = i)
    IN  [k \in 1..Len(order) |-> <<lines[order[k]][2], StrValue(sections[lines[order[k]][2]])>>]

\* script_json of export_script (main.py 268-277); script_context is a key no
\* code sets, so the three copied fields are "".
script_json(s, lines) ==
    << <<"metadata", DictValue(<< <<"session_id", StrValue(<< <<"", s>> >>)>>,
                                  <<"generated_at", StrValue(<< <<"", "timestamp">> >>)>>,
                                  <<"facility_type", StrValue(<<>>)>>,
                                  <<"target_audience", StrValue(<<>>)>>,
                                  <<"focus_threats", StrValue(<<>>)>> >>)>>,
       <<"sections", DictValue(SectionItems(lines))>> >>

\* section.replace("_", " ").title() for the keys that reach it.
TitleOf(section) ==
    CASE section = "sections" -> "Sections"
      [] OTHER -> "Title " \o section

\* format_as_markdown (utils.py 115-130): a value that is a str has neither
\* items() nor get(), so the loop raises AttributeError at it.
MarkdownOf(item) ==
    IF item[1] = "metadata"
    THEN << <<"##", "Metadata">>, <<"", "">> >>
             \o [i \in 1..Len(item[2].items) |-> <<"-", item[2].items[i][1]>>]
             \o << <<"", "">> >>
    ELSE << <<"##", ItemGet(item[2].items, "title", StrValue(<< <<"", TitleOf(item[1])>> >>)).lines[1][2]>>,
            <<"", "">> >>
             \o ItemGet(item[2].items, "content", StrValue(<<>>)).lines
             \o << <<"", "">> >>

format_as_markdown(script_content) ==
    IF \E i \in 1..Len(script_content) : script_content[i][2].type # "dict"
    THEN [outcome |-> "raised", error |-> "AttributeError", lines |-> <<>>]
    ELSE [outcome |-> "returned", error |-> None,
          lines |-> << <<"#", "Information Security Training Script">>, <<"", "">> >>
                       \o Flatten([i \in 1..Len(script_content) |->
                                      MarkdownOf(script_content[i])])]

\* The headings of a text in order, each with the non-blank lines of its body.
SectionsOf(lines) ==
    LET headers == SelectSeq([i \in 1..Len(lines) |-> i],
                             LAMBDA i : i \in ExportHeaders(lines))
    IN  [k \in 1..Len(headers) |->
            <<lines[headers[k]][2],
              SelectSeq(ExportContent(lines, headers[k]), LAMBDA l : l # <<"", "">>)>>]

Reproduces(rendered, lines) ==
    /\ rendered.outcome = "returned"
    /\ SectionsOf(rendered.lines) = SectionsOf(lines)

\* C26: after the JSON export of a stored document, format_as_markdown applied to
\* the exported sections (or to the whole exported object) returns a text with
\* the headings and the bodies of the stored document, in order.
C26_ExportRoundTrip ==
    (/\ last_call.op = "export_script"
     /\ last_call.reply.kind = "file_json")
        => \/ Reproduces(format_as_markdown(SectionItems(LastSession.generated_script.lines)),
                         LastSession.generated_script.lines)
           \/ Reproduces(format_as_markdown(script_json(last_call.session_id,
                                                        LastSession.generated_script.lines)),
                         LastSession.generated_script.lines)

(***************************************************************************)
(* The calls of process_message.                                           *)
(***************************************************************************)
\* The stages process_message has a branch for (engine.py 121-144).
HandledStages ==
    {"introduction", "strategic_questions", "clarification", "review",
     "script_generation", "followup"}

\* C27: when the stage of the session is none of the stages process_message
\* handles, the handler step makes no generation attempt and no LLM call, leaves
\* the stage, the answers, the document and its context as they were, and keeps
\* the fixed failure notice as the reply process_message returns.
C27_UnknownStageNotice ==
    [][\A k \in DOMAIN inflight :
         \/ inflight[k].pc # "handle"
         \/ inflight[k].stage \in HandledStages
         \/ \A a \in Attempts \cup {NoAttempt} :
              RunHandler(k, a) =>
                LET s == inflight[k].session_id
                IN  /\ a = NoAttempt
                    /\ k \in DOMAIN inflight'
                    /\ inflight'[k].pc = "reply"
                    /\ inflight'[k].reply = Reply("unexpected_stage")
                    /\ inflight'[k].llm_calls = 0
                    /\ active_sessions'[s] = active_sessions[s]]_vars

C27_Witness ==
    /\ last_call.op = "process_message"
    /\ last_call.outcome = "returned"
    /\ last_call.reply = Reply("unexpected_stage")
    /\ LastSession.stage \notin HandledStages
    /\ LastSession.messages[Len(LastSession.messages)].content = Reply("unexpected_stage")

\* C28: in every transcript user and assistant records alternate, and when a
\* process_message call for an existing session has ended, the last two records
\* are the user message and the assistant reply of that call.
C28_TranscriptAlternates ==
    /\ \A s \in DOMAIN active_sessions :
          LET messages == active_sessions[s].messages
          IN  \A i \in 1..(Len(messages) - 1) : messages[i].role # messages[i + 1].role
    /\ (last_call.op = "process_message" /\ last_call.known /\ EngineKnown(last_call.session_id))
          => LET messages == LastSession.messages
             IN  /\ Len(messages) >= 2
                 /\ messages[Len(messages) - 1].role = "user"
                 /\ messages[Len(messages)].role = "assistant"
                 /\ messages[Len(messages)].content = last_call.reply

(***************************************************************************)
(* SpecPair: two engine sessions and two dialogues side by side. The       *)
(* engine starts with one session in review and creates the second; the    *)
(* ChatbotEngine and the DialogueManager are separate objects, neither     *)
(* calls the other, so the calls of one are explored while the other is    *)
(* still as constructed.                                                   *)
(***************************************************************************)
PairTurns == 3     \* user messages explored per session, from its first state on

PairEngineIds == {"e1", "e2"}

PairDialogueIds == {"s1", "s2"}

PairMessages == {"ja", "zeigen"}

PairAttempts ==
    {a \in Attempts : /\ a.retrieval \in {"ok", "raises"}
                      /\ a.llm \in {None, "text"}
                      /\ a.check \in {None, "clean"}}

TurnsAtStart(s) == IF s \in EngineIds THEN Len(UserMessages(ReviewSession)) ELSE 0

EngineAsConstructed ==
    /\ active_sessions = [s \in EngineIds |-> ReviewSession]
    /\ inflight = <<>>
    /\ last_call.op = "process_message"

DialogueAsConstructed == dialogue_states = <<>> /\ last_op.op = None

PairSendMessage(s, m) ==
    /\ EngineKnown(s) =>
          Len(UserMessages(active_sessions[s])) < TurnsAtStart(s) + PairTurns
    /\ SendMessage(s, m)

NextPair ==
    \/ \E s \in PairEngineIds : DialogueAsConstructed /\ CreateSession(s)
    \/ \E s \in PairEngineIds, m \in PairMessages :
          DialogueAsConstructed /\ PairSendMessage(s, m)
    \/ \E k \in DOMAIN inflight : DialogueAsConstructed /\ ReadIndex(k)
    \/ \E k \in DOMAIN inflight : DialogueAsConstructed /\ StoreAnswer(k)
    \/ \E k \in DOMAIN inflight, a \in PairAttempts \cup {NoAttempt} :
          DialogueAsConstructed /\ RunHandler(k, a)
    \/ \E k \in DOMAIN inflight : DialogueAsConstructed /\ Respond(k)
    \/ \E s \in PairEngineIds : DialogueAsConstructed /\ GetGeneratedScript(s)
    \/ \E s \in PairEngineIds, format \in ExportFormats :
          DialogueAsConstructed /\ ExportScript(s, format)
    \/ \E s \in PairEngineIds, key \in SectionKeys, r \in CustomizationRequests :
          DialogueAsConstructed /\ CustomizeScriptSection(s, key, r, "ok", "text")
    \/ \E s \in PairDialogueIds : EngineAsConstructed /\ RecordInitialize(s)
    \/ \E s \in PairDialogueIds :
          EngineAsConstructed /\ RecordProcessResponse(s, "facility_type", "Phishing")
    \/ \E s \in PairDialogueIds : EngineAsConstructed /\ RecordGetNextQuestion(s)
    \/ \E s \in PairDialogueIds, r \in RevisionRequests :
          EngineAsConstructed /\ RecordFlagForRevision(s, r)
    \/ \E s \in PairDialogueIds : EngineAsConstructed /\ RecordGetDialogueSummary(s)

SpecPair == InitDocument /\ [][NextPair]_vars

\* The engine session a step's call is for: the session of the running
\* process_message call, or of the call the step completed.
CallFor(s) ==
    \/ \E k \in DOMAIN inflight : inflight[k].session_id = s
    \/ \E k \in DOMAIN inflight' : inflight'[k].session_id = s
    \/ last_call' # last_call /\ last_call'.session_id = s

\* C29: a step of a ChatbotEngine call for one session leaves every other
\* session of the engine as it was, and a DialogueManager call for one session
\* leaves every other dialogue state as it was; no call but the one for a
\* session removes it.
C29_SessionsIndependent ==
    [][/\ \A b \in DOMAIN active_sessions :
             \/ CallFor(b)
             \/ b \in DOMAIN active_sessions' /\ active_sessions'[b] = active_sessions[b]
       /\ \A b \in DOMAIN dialogue_states :
             \/ last_op'.session_id = b
             \/ b \in DOMAIN dialogue_states' /\ dialogue_states'[b] = dialogue_states[b]
       /\ Cardinality({s \in PairEngineIds : CallFor(s)}) <= 1]_vars

C29_Witness ==
    /\ DOMAIN active_sessions = PairEngineIds
    /\ active_sessions["e1"].generated_script # NoScript
    /\ active_sessions["e2"].strategic_responses # <<>>
    /\ last_call.session_id = "e2"

(***************************************************************************)
(* SpecAttribution: the attribution records of a combined context.         *)
(***************************************************************************)
Missing == "Missing"   \* a key the metadata of a document does not have

\* Search results (vector_store.py 172-177) of a collection: id, metadata and
\* similarity; an id belongs to one collection.
Documents(ids) ==
    {[id |-> i, metadata |-> [title |-> t, source |-> "corpus"], similarity |-> 1] :
        i \in ids, t \in {"Titel", Missing}}

ShortLists(ids) == {<<>>} \cup {<<doc>> : doc \in Documents(ids)}

PaperLists ==
    ShortLists({"paper1", "paper2"})
        \cup {pair \in Documents({"paper1"}) \X Documents({"paper2"}) : TRUE}

TemplateLists == ShortLists({"template1"})

ThreatLists == ShortLists({"threat1"})

\* search_all fills the collections in this order (vector_store.py 203).
Collections == <<"papers", "templates", "threats">>

\* retrieve_context (controller.py 79-82) keeps id, similarity and metadata of
\* each result (127-132); has_documents is FALSE for a context without the key.
StrategicContexts ==
    [has_documents : BOOLEAN,
     documents : {docs \in [{"papers", "templates", "threats"}
                               -> PaperLists \cup TemplateLists \cup ThreatLists] :
                     /\ docs["papers"] \in PaperLists
                     /\ docs["templates"] \in TemplateLists
                     /\ docs["threats"] \in ThreatLists}]

\* combine_retrieval_results (controller.py 194-224); the engine asks for the
\* threat info of one threat (engine.py 331-339).
combine_retrieval_results(strategic_context, template_examples, threat_info) ==
    [strategic_context |-> strategic_context,
     template_examples |-> template_examples,
     threat_info |-> threat_info]

\* One record of create_attribution_metadata (controller.py 419-426, 432-439,
\* 446-454).
SourceRecord(doc, untitled, type, subtype) ==
    [id |-> doc.id,
     title |-> IF doc.metadata.title = Missing THEN untitled ELSE doc.metadata.title,
     source |-> doc.metadata.source,
     type |-> type,
     subtype |-> subtype,
     similarity |-> doc.similarity]

\* create_attribution_metadata (controller.py 402-457).
create_attribution_metadata(context) ==
    (IF context.strategic_context.has_documents
     THEN Flatten([c \in 1..Len(Collections) |->
                     LET docs == context.strategic_context.documents[Collections[c]]
                     IN  [i \in 1..Len(docs) |->
                             SourceRecord(docs[i], "Untitled document", Collections[c], None)]])
     ELSE <<>>)
    \o [i \in 1..Len(context.template_examples) |->
           SourceRecord(context.template_examples[i], "Untitled example",
                        "template_example", None)]
    \o Flatten([t \in 1..Len(context.threat_info) |->
                  [i \in 1..Len(context.threat_info[t][2]) |->
                      SourceRecord(context.threat_info[t][2][i], "Untitled threat",
                                   "threat_info", context.threat_info[t][1])]])

CreateAttributionMetadata(strategic_context, template_examples, threats) ==
    LET context == combine_retrieval_results(strategic_context, template_examples,
                                             << <<"phishing", threats>> >>)
    IN  /\ last_call = NoCall
        /\ last_call' = [op |-> "create_attribution_metadata", context |-> context,
                         result |-> create_attribution_metadata(context)]
        /\ UNCHANGED <<active_sessions, inflight, dvars>>

\* retrieve_template_examples searches the templates collection, and
\* retrieve_threat_info the threats collection (controller.py 157-162, 183-188).
NextAttribution ==
    /\ last_call = NoCall
    /\ \E strategic_context \in StrategicContexts, template_examples \in TemplateLists,
          threats \in ThreatLists :
           CreateAttributionMetadata(strategic_context, template_examples, threats)

SpecAttribution == Init /\ [][NextAttribution]_vars

\* The documents of a combined context in the order of the claim.
ContextDocuments(context) ==
    (IF context.strategic_context.has_documents
     THEN Flatten([c \in 1..Len(Collections) |->
                      context.strategic_context.documents[Collections[c]]])
     ELSE <<>>)
    \o context.template_examples
    \o Flatten([t \in 1..Len(context.threat_info) |-> context.threat_info[t][2]])

\* C30: the records of create_attribution_metadata are, in order, one for each
\* document of the combined context, with that document's id, title (when it
\* has one), source and similarity, and no document id is in two records.
C30_OneRecordPerDocument ==
    last_call.op = "create_attribution_metadata" =>
        LET docs == ContextDocuments(last_call.context)
            sources == last_call.result
        IN  /\ Len(sources) = Len(docs)
            /\ \A i \in 1..Len(docs) :
                  /\ sources[i].id = docs[i].id
                  /\ docs[i].metadata.title # Missing
                        => sources[i].title = docs[i].metadata.title
                  /\ sources[i].source = docs[i].metadata.source
                  /\ sources[i].similarity = docs[i].similarity
            /\ \A i, j \in 1..Len(sources) : sources[i].id = sources[j].id => i = j

(***************************************************************************)
(* SpecThreat: the primary threat of a generation attempt.                 *)
(***************************************************************************)
MaxThreats == 3    \* longest focus_threats list explored

ThreatNames == {"", "Phishing", "Ransomware", "Malware", "USB"}

\* A focus_threats answer: absent from session_context, a str, or a list of str.
AbsentAnswer == [type |-> "absent", text |-> "", items |-> <<>>]

StrAnswer(text) == [type |-> "str", text |-> text, items |-> <<>>]

ListAnswer(items) == [type |-> "list", text |-> "", items |-> items]

ThreatAnswers ==
    {AbsentAnswer}
        \cup {StrAnswer(t) : t \in ThreatNames}
        \cup {ListAnswer(items) : items \in UNION {[1..n -> ThreatNames] : n \in 0..MaxThreats}}

\* threats of _generate_script (engine.py 331-333): the default [] for an absent
\* key, a str wrapped into a list of one element, a list as it is.
threats_of(answer) ==
    CASE answer.type = "absent" -> <<>>
      [] answer.type = "str" -> <<answer.text>>
      [] answer.type = "list" -> answer.items

\* main_threat (engine.py 334): threats[0] if threats else "phishing"; a list is
\* falsy only when it is empty.
main_threat(answer) ==
    IF threats_of(answer) # <<>> THEN threats_of(answer)[1] ELSE "phishing"

\* The query of retrieve_template_examples (controller.py 152-155).
template_query(template_id, threat_type) ==
    <<"template example for", template_id>>
        \o (IF threat_type # "" THEN <<threat_type>> ELSE <<>>)

\* Lines 331-338 of _generate_script for one focus_threats answer.
ResolveThreat(answer) ==
    /\ last_call' = [op |-> "main_threat", answer |-> answer,
                     main_threat |-> main_threat(answer),
                     query |-> template_query("seven_step", main_threat(answer)),
                     threat_types |-> threats_of(answer)]
    /\ UNCHANGED <<active_sessions, inflight, dvars>>

NextThreat ==
    /\ last_call = NoCall
    /\ \E answer \in ThreatAnswers : ResolveThreat(answer)

SpecThreat == Init /\ [][NextThreat]_vars

\* No usable focus_threats answer: the key absent, an empty list, an empty string.
NothingUsable(answer) ==
    \/ answer.type = "absent"
    \/ answer.type = "list" /\ answer.items = <<>>
    \/ answer.type = "str" /\ answer.text = ""

\* C31: the primary threat is 'phishing' when there is no usable focus_threats
\* answer, otherwise the first element of a list answer and the whole string of
\* a string answer.
C31_PrimaryThreat ==
    last_call.op = "main_threat" =>
        last_call.main_threat =
            IF NothingUsable(last_call.answer) THEN "phishing"
            ELSE IF last_call.answer.type = "list" THEN last_call.answer.items[1]
            ELSE last_call.answer.text

(***************************************************************************)
(* The engine after a generation.                                          *)
(***************************************************************************)
\* A step of a process_message call: a call is running before or after it.
ProcessMessageStep == inflight # <<>> \/ inflight' # <<>>

\* C32: once a session is in followup, no step of a process_message call
\* changes its stage, its generated_script, the stored context or the warnings,
\* and the handler of a message for it runs no generation attempt and no LLM
\* call and leaves its reply to be returned.
C32_FollowupIsTerminal ==
    [][ProcessMessageStep =>
         \A s \in DOMAIN active_sessions :
            active_sessions[s].stage = "followup" =>
               /\ active_sessions'[s].stage = "followup"
               /\ active_sessions'[s].generated_script = active_sessions[s].generated_script
               /\ active_sessions'[s].generation_context = active_sessions[s].generation_context
               /\ active_sessions'[s].hallucination_warnings
                     = active_sessions[s].hallucination_warnings
               /\ \A k \in DOMAIN inflight :
                     (inflight[k].session_id = s /\ inflight[k].pc = "handle") =>
                        /\ k \in DOMAIN inflight'
                        /\ inflight'[k].pc = "reply"
                        /\ inflight'[k].attempt = NoAttempt
                        /\ inflight'[k].llm_calls = 0]_vars

C32_Witness ==
    /\ last_call.op = "process_message"
    /\ last_call.outcome = "returned"
    /\ last_call.attempt = NoAttempt
    /\ last_call.reply = Reply("how_can_i_help")
    /\ LastSession.stage = "followup"
    /\ LastSession.generated_script # NoScript

(***************************************************************************)
(* SpecClarify: one dialogue driven by a caller who asks for the next      *)
(* question and answers the question that was returned under its id. A    *)
(* strategic or contextual question may be answered, answered with the     *)
(* empty text or passed over; a clarification question is always answered, *)
(* with a non-empty text, before the next question is asked for.           *)
(***************************************************************************)
\* The question the last call returned and the caller has not answered yet.
Returned_question ==
    IF last_op.op = "get_next_question" THEN last_op.question_id ELSE None

ClarifyInitialize(s) ==
    /\ ~Known(s)
    /\ InitializeDialogue(s)
    /\ last_op' = Logged("initialize_dialogue", s)

\* get_next_question(s), its result kept.
AskNext(s) ==
    /\ Known(s)
    /\ ~StartsWithClarify(Returned_question)
    /\ dialogue_states' = [dialogue_states EXCEPT ![s] = get_next_question(@).state]
    /\ last_op' = [Logged("get_next_question", s) EXCEPT
                      !.question_id = get_next_question(dialogue_states[s]).result]
    /\ UNCHANGED <<now, advances, threads, evars>>

\* process_response(s, q, v) for the question q that was returned.
AnswerReturned(s, v) ==
    /\ Known(s)
    /\ last_op.session_id = s
    /\ Returned_question # None
    /\ StartsWithClarify(Returned_question) => Truthy(v)
    /\ dialogue_states' =
          [dialogue_states EXCEPT ![s] = process_response(@, Returned_question, v, now)]
    /\ last_op' = [Logged("process_response", s) EXCEPT
                      !.question_id = Returned_question, !.response = v]
    /\ UNCHANGED <<now, advances, threads, evars>>

NextClarify ==
    \/ \E s \in SessionIds : ClarifyInitialize(s)
    \/ \E s \in SessionIds : AskNext(s)
    \/ \E s \in SessionIds, v \in Values : AnswerReturned(s, v)

\* The caller keeps calling: a call that would change something is made.
SpecClarify ==
    /\ Init
    /\ [][NextClarify]_vars
    /\ \A s \in SessionIds :
          /\ WF_vars(AskNext(s))
          /\ WF_vars(\E v \in Values : AnswerReturned(s, v))

\* C33: a dialogue in clarification whose clarification questions are all
\* answered, non-empty, under their ids is eventually moved to
\* contextual_questions by the get_next_question calls.
C33_ClarificationEnds ==
    \A s \in SessionIds :
        (Known(s) /\ dialogue_states[s].current_stage = "clarification")
            ~> (Known(s) /\ dialogue_states[s].current_stage = "contextual_questions")

(***************************************************************************)
(* Where generation starts.                                                *)
(***************************************************************************)
\* _generate_script has begun on session s in this step: line 322 put the
\* session into "generating", and line 381 into "followup" where it got there.
GenerationStarts(s) ==
    /\ s \in DOMAIN active_sessions'
    /\ active_sessions[s].stage \notin {"generating", "followup"}
    /\ active_sessions'[s].stage \in {"generating", "followup"}

AllCatalogAnswered(sess) ==
    Range(get_strategic_questions) \subseteq DOMAIN sess.strategic_responses

\* C34: generation starts only in the handler of a confirming message read in
\* the clarification stage with clarification_type confirm_generation, and then
\* every catalog question id has an entry in strategic_responses.
C34_GenerationOnlyAfterConfirmation ==
    [][\A s \in DOMAIN active_sessions :
          GenerationStarts(s) =>
              /\ active_sessions[s].stage = "clarification"
              /\ active_sessions[s].clarification_type = "confirm_generation"
              /\ AllCatalogAnswered(active_sessions[s])
              /\ \E k \in DOMAIN inflight :
                    /\ inflight[k].session_id = s
                    /\ inflight[k].pc = "handle"
                    /\ inflight[k].stage = "clarification"
                    /\ inflight[k].message \in ConfirmWords]_vars

C34_Witness ==
    /\ last_call.op = "process_message"
    /\ last_call.attempt # NoAttempt
    /\ last_call.known
    /\ LastSession.stage \in {"generating", "followup"}
    /\ LastSession.clarification_type = "confirm_generation"
    /\ AllCatalogAnswered(LastSession)
    /\ Len(UserMessages(LastSession)) = Len(get_strategic_questions) + 3

(***************************************************************************)
(* The question index of an engine session.                                *)
(***************************************************************************)
\* C35: a session in strategic_questions has current_question_index below the
\* catalog length, the index read for the catalog lookup of line 190 is below
\* it as well (no call ends in IndexError), and in no stage does the index
\* exceed the catalog length.
C35_EngineIndexInRange ==
    /\ \A s \in DOMAIN active_sessions :
          /\ active_sessions[s].current_question_index
                \in 0..Len(get_strategic_questions)
          /\ active_sessions[s].stage = "strategic_questions"
                => active_sessions[s].current_question_index < Len(get_strategic_questions)
    /\ \A k \in DOMAIN inflight :
          inflight[k].pc = "store"
              => inflight[k].question_index < Len(get_strategic_questions)
    /\ last_call.op = "process_message" => last_call.reply # Reply("IndexError")

\* The last catalog lookup: the seventh answer stored, the session in review.
C35_Witness ==
    /\ last_call.op = "process_message"
    /\ last_call.known
    /\ last_call.outcome = "returned"
    /\ last_call.reply.kind = "review_summary"
    /\ LastSession.stage = "review"
    /\ LastSession.current_question_index = Len(get_strategic_questions)
    /\ Len(UserMessages(LastSession)) = Len(get_strategic_questions) + 1

(***************************************************************************)
(* SpecQuestions: one dialogue from introduction on, its get_next_question  *)
(* calls counted with the question each returned, the one before and the    *)
(* contextual questions listed at the call.  The                            *)
(* caller answers the question returned last or passes it over, and may     *)
(* change the answer to focus_threats once it has given one.               *)
(***************************************************************************)
\* The answers the caller changes afterwards.
RevisedIds == {"focus_threats"}

QuestionsInitialize(s) ==
    /\ ~Known(s)
    /\ dialogue_states' = Put(dialogue_states, s, NewDialogueState(now))
    /\ advances' = Put(advances, s,
                       [calls |-> 0, from |-> None, result |-> None, previous |-> None,
                        listed |-> <<>>])
    /\ UNCHANGED <<now, threads, evars, last_op>>

\* get_next_question(s).
QuestionsAsk(s) ==
    /\ Known(s)
    /\ advances[s].calls < MaxCalls
    /\ dialogue_states' = [dialogue_states EXCEPT ![s] = get_next_question(@).state]
    /\ advances' = [advances EXCEPT ![s] =
           [calls |-> @.calls + 1,
            from |-> dialogue_states[s].current_stage,
            result |-> get_next_question(dialogue_states[s]).result,
            previous |-> @.result,
            listed |-> dialogue_states[s].contextual_questions]]
    /\ UNCHANGED <<now, threads, evars, last_op>>

\* process_response(s, q, v) for the question q returned last.
QuestionsAnswer(s, v) ==
    /\ Known(s)
    /\ advances[s].result # None
    /\ dialogue_states' =
          [dialogue_states EXCEPT ![s] = process_response(@, advances[s].result, v, now)]
    /\ UNCHANGED <<now, advances, threads, evars, last_op>>

\* process_response(s, q, v) for a required field q answered before.
QuestionsAnswerAgain(s, q, v) ==
    /\ Known(s)
    /\ q \in DOMAIN dialogue_states[s].responses
    /\ dialogue_states[s].responses[q] # v
    /\ dialogue_states' =
          [dialogue_states EXCEPT ![s] = process_response(@, q, v, now)]
    /\ UNCHANGED <<now, advances, threads, evars, last_op>>

NextQuestions ==
    \/ \E s \in SessionIds : QuestionsInitialize(s)
    \/ \E s \in SessionIds : QuestionsAsk(s)
    \/ \E s \in SessionIds, v \in Values : QuestionsAnswer(s, v)
    \/ \E s \in SessionIds, q \in RevisedIds, v \in Values : QuestionsAnswerAgain(s, q, v)

SpecQuestions == Init /\ [][NextQuestions]_vars

\* The k-th call returned the k-th strategic question, and no later call a
\* strategic question.
StrategicOnceInOrder ==
    \A s \in DOMAIN dialogue_states :
        /\ advances[s].calls \in 1..NumStrategic
              => advances[s].result = STRATEGIC_QUESTIONS[advances[s].calls]
        /\ advances[s].calls > NumStrategic
              => advances[s].result \notin Range(STRATEGIC_QUESTIONS)

\* A get_next_question call on s made in this step after a call that returned
\* a clarification or contextual question which has no answer.
AsksWhileOpen(s) ==
    /\ s \in DOMAIN advances
    /\ advances'[s].calls = advances[s].calls + 1
    /\ advances[s].result # None
    /\ advances[s].result \notin Range(STRATEGIC_QUESTIONS)
    /\ advances[s].result \notin DOMAIN dialogue_states[s].responses

\* C36 as stated: each strategic question is returned once, in catalog order,
\* before every other question, whatever is answered; a clarification or
\* contextual question is returned again on every call until an answer for its
\* id is recorded.
C36_Original ==
    /\ []StrategicOnceInOrder
    /\ [][\A s \in SessionIds :
             AsksWhileOpen(s) => advances'[s].result = advances[s].result]_vars

\* C36 amended: each strategic question is returned once, in catalog order,
\* before every other question, whatever is answered; a clarification question
\* is returned again on every call until an answer for its id is recorded, and
\* so is a contextual question unless an answer recorded in between has changed
\* the list of contextual questions.
C36_RepeatedWhileListed ==
    /\ []StrategicOnceInOrder
    /\ [][\A s \in SessionIds :
             AsksWhileOpen(s) =>
                 \/ advances'[s].result = advances[s].result
                 \/ /\ ~StartsWithClarify(advances[s].result)
                    /\ dialogue_states[s].contextual_questions # advances[s].listed]_vars

\* A contextual question returned by two calls in a row, no answer under its id.
C36_Witness ==
    \E s \in DOMAIN dialogue_states :
        /\ advances[s].previous # None
        /\ advances[s].previous \notin DOMAIN dialogue_states[s].responses
        /\ advances[s].calls > NumStrategic + 1
        /\ advances[s].result = advances[s].previous
        /\ advances[s].result \in Range(dialogue_states[s].contextual_questions)

(***************************************************************************)
(* SpecRefresh: one dialogue under a clock with the expiry sweep, the time  *)
(* its stage, index or answers changed last kept beside it.                 *)
(***************************************************************************)
\* What the claim calls a change of the dialogue: stage, index or answers.
Progress(d) == <<d.current_stage, d.next_question_index, d.responses>>

\* The dialogue of s replaced by d in this step; changed_at follows the clock
\* when the stage, the index or the answers differ.
Replaced(s, d, op) ==
    /\ dialogue_states' = [dialogue_states EXCEPT ![s] = d]
    /\ advances' = [advances EXCEPT ![s].changed_at =
                       IF Progress(d) # Progress(dialogue_states[s]) THEN now ELSE @]
    /\ last_op' = Logged(op, s)
    /\ UNCHANGED <<now, threads, evars>>

RefreshInitialize(s) ==
    /\ ~Known(s)
    /\ dialogue_states' = Put(dialogue_states, s, NewDialogueState(now))
    /\ advances' = Put(advances, s, [changed_at |-> now])
    /\ last_op' = Logged("initialize_dialogue", s)
    /\ UNCHANGED <<now, threads, evars>>

RefreshProcessResponse(s, q, v) ==
    /\ Known(s)
    /\ Replaced(s, process_response(dialogue_states[s], q, v, now), "process_response")

RefreshGetNextQuestion(s) ==
    /\ Known(s)
    /\ Replaced(s, get_next_question(dialogue_states[s]).state, "get_next_question")

RefreshFlagForRevision(s, r) ==
    /\ Known(s)
    /\ Replaced(s, flag_for_revision(dialogue_states[s], r), "flag_for_revision")

\* clean_expired_sessions(max_age); changed_at of a removed session is kept.
RefreshClean(max_age) ==
    /\ CleanExpiredSessions(max_age)

NextRefresh ==
    \/ Tick
    \/ \E s \in SessionIds : RefreshInitialize(s)
    \/ \E s \in SessionIds, q \in RecordIds, v \in Values : RefreshProcessResponse(s, q, v)
    \/ \E s \in SessionIds : RefreshGetNextQuestion(s)
    \/ \E s \in SessionIds, r \in RevisionRequests : RefreshFlagForRevision(s, r)
    \/ \E max_age \in MaxAges : RefreshClean(max_age)

SpecRefresh == Init /\ [][NextRefresh]_vars

\* C37: last_updated of a dialogue is the time its stage, index or answers
\* changed last or later, and a sweep removes no session that changed less than
\* max_age ago.
C37_ChangeRefreshes ==
    /\ \A s \in DOMAIN dialogue_states :
          dialogue_states[s].last_updated >= advances[s].changed_at
    /\ last_op.op = "clean_expired_sessions"
          => \A s \in last_op.removed :
                AgeHours(advances[s].changed_at, now) >= last_op.max_age

(***************************************************************************)
(* SpecRevision: one dialogue from introduction on under get_next_question, *)
(* process_response and flag_for_revision, with the stage at which it was   *)
(* flagged first and the last get_next_question call kept beside it.        *)
(***************************************************************************)
RevisionInitialize(s) ==
    /\ ~Known(s)
    /\ dialogue_states' = Put(dialogue_states, s, NewDialogueState(now))
    /\ advances' = Put(advances, s,
                       [calls |-> 0, from |-> None, result |-> None, flagged_from |-> None])
    /\ UNCHANGED <<now, threads, evars, last_op>>

RevisionAsk(s) ==
    /\ Known(s)
    /\ advances[s].calls < MaxCalls
    /\ dialogue_states' = [dialogue_states EXCEPT ![s] = get_next_question(@).state]
    /\ advances' = [advances EXCEPT
           ![s].calls = @ + 1,
           ![s].from = dialogue_states[s].current_stage,
           ![s].result = get_next_question(dialogue_states[s]).result]
    /\ UNCHANGED <<now, threads, evars, last_op>>

RevisionAnswer(s, q, v) ==
    /\ Known(s)
    /\ dialogue_states' = [dialogue_states EXCEPT ![s] = process_response(@, q, v, now)]
    /\ UNCHANGED <<now, advances, threads, evars, last_op>>

RevisionFlag(s, r) ==
    /\ Known(s)
    /\ dialogue_states' = [dialogue_states EXCEPT ![s] = flag_for_revision(@, r)]
    /\ advances' = [advances EXCEPT ![s].flagged_from =
                       IF @ = None THEN dialogue_states[s].current_stage ELSE @]
    /\ UNCHANGED <<now, threads, evars, last_op>>

NextRevision ==
    \/ \E s \in SessionIds : RevisionInitialize(s)
    \/ \E s \in SessionIds : RevisionAsk(s)
    \/ \E s \in SessionIds, q \in RequiredIds, v \in Values : RevisionAnswer(s, q, v)
    \/ \E s \in SessionIds, r \in RevisionRequests : RevisionFlag(s, r)

SpecRevision == Init /\ [][NextRevision]_vars

\* C38: a dialogue that was flagged, at whatever stage, is in revision and
\* stays there under get_next_question and process_response (so it is never
\* complete), and a get_next_question call made in revision returns no question.
C38_RevisionAbsorbs ==
    \A s \in DOMAIN dialogue_states :
        /\ advances[s].flagged_from # None
              => /\ dialogue_states[s].current_stage = "revision"
                 /\ dialogue_states[s].needs_revision
        /\ advances[s].from = "revision"
              => /\ advances[s].result = None
                 /\ advances[s].flagged_from # None

\* A dialogue flagged when complete and asked for a question afterwards.
C38_Witness ==
    \E s \in DOMAIN dialogue_states :
        /\ advances[s].flagged_from = "complete"
        /\ advances[s].from = "revision"
        /\ advances[s].calls = NumStrategic + 4
        /\ dialogue_states[s].current_stage = "revision"
        /\ dialogue_states[s].needs_revision

====
